---- MODULE Spec2Model ----
(***************************************************************************)
(* Model of the unified HTTP client of vaonis_instruments_unified          *)
(* (src/node/vaonis_instruments_unified/src/unified_client.js).            *)
(*                                                                         *)
(* JavaScript strings are sequences of one-character strings, byte buffers *)
(* are sequences of integers 0..255.  Every asynchronous client operation  *)
(* (detectBaseUrl, request, callOperation, downloadImage) runs in a call   *)
(* slot; the steps between two awaits of the code are one action.          *)
(***************************************************************************)
EXTENDS Integers, Sequences, FiniteSets, TLC

\* ------------------------------------------------------------------ bounds
\* Number of client operations a behaviour starts (they may all overlap).
MaxCalls == 2
\* Longest configured prefix list.
MaxPrefixes == 2

Calls == 1..MaxCalls

\* ----------------------------------------------------------------- strings
HttpScheme == <<"h", "t", "t", "p", ":", "/", "/">>
HttpsScheme == <<"h", "t", "t", "p", "s", ":", "/", "/">>

\* String.prototype.startsWith
StartsWith(s, p) == Len(s) >= Len(p) /\ SubSeq(s, 1, Len(p)) = p

\* String.prototype.includes
Includes(s, p) == \E i \in 0..(Len(s) - Len(p)) : SubSeq(s, i + 1, i + Len(p)) = p

\* s.replace(/\/+$/, ""): every trailing slash is removed.
RECURSIVE StripTrailingSlashes(_)
StripTrailingSlashes(s) ==
  IF Len(s) > 0 /\ s[Len(s)] = "/"
    THEN StripTrailingSlashes(SubSeq(s, 1, Len(s) - 1))
    ELSE s

\* s.replace(/^\//, ""): one leading slash is removed.
StripLeadingSlash(s) ==
  IF Len(s) > 0 /\ s[1] = "/" THEN SubSeq(s, 2, Len(s)) ELSE s

\* `${base.replace(/\/+$/, "")}/${path.replace(/^\//, "")}`
JoinUrl(base, path) == StripTrailingSlashes(base) \o <<"/">> \o StripLeadingSlash(path)

\* The strings the configuration and the callers are drawn from.
\* "h" and "8" stand for a host name and a port number.
Host == <<"h">>
Port == <<"8">>
\* "", "/stellina/http", "/vespera/http" (DEFAULT_PREFIXES) and "/sim/".
PrefixPool ==
  << <<>>,
     <<"/", "s", "t", "e", "l", "l", "i", "n", "a", "/", "h", "t", "t", "p">>,
     <<"/", "v", "e", "s", "p", "e", "r", "a", "/", "h", "t", "t", "p">>,
     <<"/", "s", "i", "m", "/">> >>
\* "/v1", the default apiBasePath.
DefaultApiBasePath == <<"/", "v", "1">>
\* "/app/status"
StatusPath == <<"/", "a", "p", "p", "/", "s", "t", "a", "t", "u", "s">>

\* "/app/abortAllOperations"
AbortAllPath ==
  <<"/", "a", "p", "p", "/", "a", "b", "o", "r", "t", "A", "l", "l",
    "O", "p", "e", "r", "a", "t", "i", "o", "n", "s">>

\* The route manifest (operationId -> method, path); two of its entries.
Manifest ==
  [ appGetStatus |-> [method |-> "GET", path |-> StatusPath],
    appPostAbortAllOperations |-> [method |-> "POST", path |-> AbortAllPath] ]

\* ------------------------------------------------------------------- state
VARIABLES
  prefixes,     \* this.prefixes: the configured, ordered prefix list
  apiBasePath,  \* this.apiBasePath
  baseUrl,      \* this.baseUrl: the cached base URL, Null while unset
  routesCache,  \* module-level routesCache: Null or the loaded catalog
  net,          \* the network: what the probe of each prefix gets right now
  stable,       \* history: the network has not changed since construction
  call,         \* the client operations: one record per call slot
  envKeyFile,   \* process.env.VAONIS_AUTH_KEY_FILE, Null while unset
  disk,         \* the file system: what is at each (normalized) path
  reads,        \* history: the paths readFileSync has been called with
  auth,         \* the latest call of auth.js: its inputs and its outcome
  listeners,    \* the socket's listeners: per event, in registration order
  commands,     \* history: the calls of sendCommand, in order
  emitted,      \* history: the calls of socket.emit, in order
  inbox,        \* the push messages received and not yet dispatched
  arrived,      \* history: the events of the push messages received, in order
  invoked,      \* history: the handler invocations, in order
  loads,        \* history: how many times the route manifest has been read
  sent,         \* the latest fetch of a request with options: what was passed
  tool          \* the latest run of tools/extract_auth_key.js: args and outcome

\* The state of the HTTP client, of auth.js and of the socket client.
clientVars == <<prefixes, apiBasePath, baseUrl, routesCache, net, stable, call, loads>>
authVars == <<envKeyFile, disk, reads, auth>>
socketVars == <<listeners, commands, emitted, inbox, arrived, invoked>>
toolVars == <<sent, tool>>

vars == <<prefixes, apiBasePath, baseUrl, routesCache, net, stable, call,
          envKeyFile, disk, reads, auth, listeners, commands, emitted, inbox, arrived,
          invoked, loads, sent, tool>>

\* null (and the empty string, which `||` treats alike).
Null == <<>>

\* What the network makes of the probe of a prefix: a successful status, a
\* non-success status, or no response ("down": the fetch rejects with a
\* network error, or nothing comes back before the timer fires).
NetStates == {"ok", "bad", "down"}

Pending == [tag |-> "pending", name |-> "", status |-> 0, value |-> <<>>]
Returned(v) == [tag |-> "ok", name |-> "", status |-> 0, value |-> v]
Thrown(n, st) == [tag |-> "error", name |-> n, status |-> st, value |-> <<>>]

\* A call slot nothing has been started in.
IdleCall ==
  [ op |-> "none",        \* detectBaseUrl | request | callOperation | downloadImage
    pc |-> "idle",        \* idle | probe | fetch | body | done
    opId |-> "",          \* operationId of a callOperation
    method |-> "",        \* HTTP method of the target request
    arg |-> <<>>,         \* path or urlOrPath
    idx |-> 0,            \* index of the prefix being probed
    base |-> Null,        \* the local `base`
    url |-> Null,         \* the URL of the fetch in flight
    timer |-> FALSE,      \* the call's setTimeout is armed
    aborted |-> FALSE,    \* the call's controller.signal.aborted
    fetches |-> 0,        \* calls of this.fetch made so far
    probes |-> 0,         \* of which detection probes
    resp |-> <<>>,        \* <<status, content-type>> of the response received
    body |-> <<>>,        \* the response body received
    seen |-> Null,        \* history: this.baseUrl when the call began
    result |-> Pending ]

\* response.ok
Ok(status) == status >= 200 /\ status <= 299

\* ---------------------------------------------------------- _makeBaseUrl
MakeBaseUrl(prefix) ==
  StripTrailingSlashes(HttpScheme \o Host \o <<":">> \o Port \o prefix \o apiBasePath)

\* The candidate of the i-th configured prefix.
Candidate(i) == MakeBaseUrl(prefixes[i])

\* ------------------------------------------------------ _fetchWithTimeout
\* new AbortController, setTimeout, this.fetch(url, {signal}): up to the await.
FetchWithTimeout(r, u) ==
  [r EXCEPT !.url = u, !.timer = TRUE, !.aborted = FALSE, !.fetches = @ + 1]

\* _fetchWithTimeout without its finally.
ClearTimeoutMissing(r) == r

\* finally { clearTimeout(timeout) }
ClearTimeout(r) == [r EXCEPT !.timer = FALSE]

\* ---------------------------------------------------------- detectBaseUrl
\* The loop of detectBaseUrl from prefix i on, up to its next await: the
\* probe of prefix i is sent, or the loop is over and the call throws.
ProbeFrom(r, i) ==
  IF i > Len(prefixes)
    THEN [r EXCEPT !.pc = "done", !.idx = i,
                   !.result = Thrown("BaseUrlNotDetected", 0)]
    ELSE [FetchWithTimeout(r, Candidate(i) \o StatusPath)
            EXCEPT !.pc = "probe", !.idx = i, !.probes = @ + 1]

\* ------------------------------------------------- request, downloadImage
\* The URL the call fetches once `base` is known.  `new URL(..).toString()`
\* leaves every URL built from the strings of this model as it is (no dot
\* segment, no query, no character to escape).
TargetUrl(r, base) ==
  IF r.op = "downloadImage"
       /\ (StartsWith(r.arg, HttpScheme) \/ StartsWith(r.arg, HttpsScheme))
    THEN r.arg
    ELSE JoinUrl(base, r.arg)

\* From `base` known to the await of the target fetch.
SendTarget(r, base) ==
  [FetchWithTimeout([r EXCEPT !.base = base], TargetUrl(r, base)) EXCEPT !.pc = "fetch"]

\* Begin without the cache: `const base = await this.detectBaseUrl()`.
BeginAlwaysDetects(r) == ProbeFrom(r, 1)

\* `const base = this.baseUrl || (await this.detectBaseUrl())`
Begin(r) == IF baseUrl # Null THEN SendTarget(r, baseUrl) ELSE ProbeFrom(r, 1)

\* A detection that found its base URL: detectBaseUrl returns it, request
\* and downloadImage go on with it.
Resolved(r) ==
  IF r.op = "detectBaseUrl"
    THEN [r EXCEPT !.pc = "done", !.result = Returned(r.base)]
    ELSE SendTarget(r, r.base)

\* AfterProbe without the `return candidate`: the loop goes on after a
\* success and the last successful candidate is returned.
AfterProbeKeepsGoing(r, o) ==
  LET seen == IF o = "ok" THEN [ClearTimeout(r) EXCEPT !.base = Candidate(r.idx)]
                          ELSE ClearTimeout(r)
  IN IF r.idx = Len(prefixes) /\ seen.base # Null
       THEN Resolved(seen)
       ELSE ProbeFrom(seen, r.idx + 1)

\* AfterProbe without the try/catch: a rejected probe ends the detection.
AfterProbeNoCatch(r, o) ==
  IF o = "ok" THEN Resolved([ClearTimeout(r) EXCEPT !.base = Candidate(r.idx)])
  ELSE IF o = "bad" THEN ProbeFrom(ClearTimeout(r), r.idx + 1)
  ELSE [ClearTimeout(r) EXCEPT !.pc = "done", !.result = Thrown("NetworkError", 0)]

\* What one settled probe does to the call: `if (response.ok) return
\* candidate`, otherwise (non-success status, or the catch) the next prefix.
\* o is the outcome of the probe of prefix r.idx.
AfterProbe(r, o) ==
  LET seen == ClearTimeout(r)
  IN IF o = "ok"
       THEN Resolved([seen EXCEPT !.base = Candidate(r.idx)])
       ELSE ProbeFrom(seen, r.idx + 1)

\* BaseAfterProbe with the assignment outside the `if (response.ok)`.
BaseAfterProbeUnconditional(r, o) == Candidate(r.idx)

\* BaseAfterProbe with `if (response)` for `if (response.ok)`.
BaseAfterProbeAnyResponse(r, o) ==
  IF o \in {"ok", "bad"} THEN Candidate(r.idx) ELSE baseUrl

\* What one settled probe does to this.baseUrl: `this.baseUrl = candidate`
\* under `if (response.ok)`.
BaseAfterProbe(r, o) == IF o = "ok" THEN Candidate(r.idx) ELSE baseUrl

\* loadRoutes(): the cache, filled from the manifest on the first call.
LoadRoutes == IF routesCache # Null THEN routesCache ELSE <<Manifest>>

\* loadRoutes() reading the manifest on every call.
ManifestReadsUncached == loads + 1

\* How often the manifest has been read after loadRoutes(): readFileSync is
\* behind `if (routesCache) return routesCache`.
ManifestReads == IF routesCache # Null THEN loads ELSE loads + 1

\* callOperation with the lookup checked after the base URL is resolved.
CallOperationChecksLate(r, routes) ==
  IF r.opId \in DOMAIN routes
    THEN Begin([r EXCEPT !.method = routes[r.opId].method, !.arg = routes[r.opId].path])
    ELSE Begin(r)

\* callOperation handing request the path alone.
CallOperationDropsMethod(r, routes) ==
  IF r.opId \in DOMAIN routes
    THEN Begin([r EXCEPT !.arg = routes[r.opId].path])
    ELSE [r EXCEPT !.pc = "done", !.result = Thrown("UnknownOperation", 0)]

\* callOperation up to its first await.
CallOperation(r, routes) ==
  IF r.opId \in DOMAIN routes
    THEN Begin([r EXCEPT !.method = routes[r.opId].method, !.arg = routes[r.opId].path])
    ELSE [r EXCEPT !.pc = "done", !.result = Thrown("UnknownOperation", 0)]

\* Abort with one controller shared by the client: every fetch in flight is
\* aborted.
AbortShared(cs, c) ==
  [d \in DOMAIN cs |->
     IF d = c \/ cs[d].pc \in {"probe", "fetch"}
       THEN [cs[d] EXCEPT !.aborted = TRUE, !.timer = FALSE]
       ELSE cs[d]]

\* controller.abort() of the call's own controller, run by its own timer.
Abort(cs, c) == [cs EXCEPT ![c].aborted = TRUE, ![c].timer = FALSE]

\* AfterAbort with a target fetch that is sent again after a timeout.
AfterAbortRetries(r) ==
  IF r.pc = "probe"
    THEN AfterProbe(r, "timeout")
    ELSE FetchWithTimeout(r, r.url)

\* The call after the fetch it awaits has rejected with the abort error.
AfterAbort(r) ==
  IF r.pc = "probe"
    THEN AfterProbe(r, "timeout")
    ELSE [ClearTimeout(r) EXCEPT !.pc = "done", !.result = Thrown("TimeoutError", 0)]

\* ------------------------------------------------------ response decoding
UpperCase == <<"A", "B", "C", "D", "E", "F", "G", "H", "I", "J", "K", "L", "M",
               "N", "O", "P", "Q", "R", "S", "T", "U", "V", "W", "X", "Y", "Z">>
LowerCase == <<"a", "b", "c", "d", "e", "f", "g", "h", "i", "j", "k", "l", "m",
               "n", "o", "p", "q", "r", "s", "t", "u", "v", "w", "x", "y", "z">>

\* String.prototype.toLowerCase
ToLowerCase(s) ==
  [i \in 1..Len(s) |->
     IF \E k \in 1..Len(UpperCase) : UpperCase[k] = s[i]
       THEN LowerCase[CHOOSE k \in 1..Len(UpperCase) : UpperCase[k] = s[i]]
       ELSE s[i]]

\* Content types: none (the header is absent: `|| ""`), "application/json",
\* "application/json; charset=utf-8", "Application/JSON", "text/plain",
\* "image/png", "IMAGE/PNG", "application/octet-stream".
CtNone == <<>>
CtJson == <<"a", "p", "p", "l", "i", "c", "a", "t", "i", "o", "n", "/", "j", "s", "o", "n">>
CtJsonCharset == <<"a", "p", "p", "l", "i", "c", "a", "t", "i", "o", "n", "/", "j", "s", "o", "n", ";", " ", "c", "h", "a", "r", "s", "e", "t", "=", "u", "t", "f", "-", "8">>
CtJsonUpper == <<"A", "p", "p", "l", "i", "c", "a", "t", "i", "o", "n", "/", "J", "S", "O", "N">>
CtText == <<"t", "e", "x", "t", "/", "p", "l", "a", "i", "n">>
CtPng == <<"i", "m", "a", "g", "e", "/", "p", "n", "g">>
CtPngUpper == <<"I", "M", "A", "G", "E", "/", "P", "N", "G">>
CtOctet == <<"a", "p", "p", "l", "i", "c", "a", "t", "i", "o", "n", "/", "o", "c", "t", "e", "t", "-", "s", "t", "r", "e", "a", "m">>
\* "image/"
ImagePrefix == <<"i", "m", "a", "g", "e", "/">>

\* buffer.slice(from, to)
Slice(b, from, to) == SubSeq(b, from + 1, IF to < Len(b) THEN to ELSE Len(b))

\* Buffer.from("BM"), "GIF87a", "GIF89a", "RIFF", "WEBP" and the magic numbers.
SigJpeg == <<255, 216, 255>>
SigPng == <<137, 80, 78, 71, 13, 10, 26, 10>>
SigBmp == <<66, 77>>
SigGif87 == <<71, 73, 70, 56, 55, 97>>
SigGif89 == <<71, 73, 70, 56, 57, 97>>
SigTiffLe == <<73, 73, 42, 0>>
SigTiffBe == <<77, 77, 0, 42>>
SigRiff == <<82, 73, 70, 70>>
SigWebp == <<87, 69, 66, 80>>

\* looksLikeImage without `buffer.length < 4`.
LooksLikeImageNoLengthGuard(buffer, contentType) ==
  IF contentType # <<>> /\ StartsWith(ToLowerCase(contentType), ImagePrefix) THEN TRUE
  ELSE \/ StartsWith(buffer, SigJpeg)
       \/ Slice(buffer, 0, 8) = SigPng
       \/ Slice(buffer, 0, 2) = SigBmp
       \/ Slice(buffer, 0, 6) = SigGif87
       \/ Slice(buffer, 0, 6) = SigGif89
       \/ Slice(buffer, 0, 4) = SigTiffLe
       \/ Slice(buffer, 0, 4) = SigTiffBe
       \/ (Len(buffer) >= 12 /\ Slice(buffer, 0, 4) = SigRiff
                             /\ Slice(buffer, 8, 12) = SigWebp)

\* looksLikeImage(buffer, contentType)
LooksLikeImage(buffer, contentType) ==
  IF contentType # <<>> /\ StartsWith(ToLowerCase(contentType), ImagePrefix) THEN TRUE
  ELSE IF Len(buffer) < 4 THEN FALSE
  ELSE \/ (buffer[1] = 255 /\ buffer[2] = 216 /\ buffer[3] = 255)
       \/ Slice(buffer, 0, 8) = SigPng
       \/ Slice(buffer, 0, 2) = SigBmp
       \/ Slice(buffer, 0, 6) = SigGif87
       \/ Slice(buffer, 0, 6) = SigGif89
       \/ Slice(buffer, 0, 4) = SigTiffLe
       \/ Slice(buffer, 0, 4) = SigTiffBe
       \/ (Len(buffer) >= 12 /\ Slice(buffer, 0, 4) = SigRiff
                             /\ Slice(buffer, 8, 12) = SigWebp)

\* The body texts that are JSON documents: "{}" and "[1]".
JsonTexts == { <<"{", "}">>, <<"[", "1", "]">> }

\* response.json(): the structured value of the text, or a SyntaxError.
JsonParse(text) ==
  IF text \in JsonTexts
    THEN [ok |-> TRUE, value |-> <<"json", text>>]
    ELSE [ok |-> FALSE, value |-> <<>>]

\* request from the response received to its result: the body is decoded by
\* content type, then the status is looked at.
RequestResult(resp, body) ==
  LET status == resp[1]
      contentType == resp[2]
      json == Includes(contentType, CtJson)
      parsed == JsonParse(body)
      payload == IF json THEN parsed.value ELSE body
  IN IF json /\ ~parsed.ok THEN Thrown("SyntaxError", 0)
     ELSE IF ~Ok(status) THEN Thrown("HttpError", status)
     ELSE Returned(payload)

\* downloadImage from the response received to its result.
ImageResult(resp, body) ==
  IF Ok(resp[1]) \/ LooksLikeImage(body, resp[2])
    THEN Returned(body)
    ELSE Thrown("HttpError", resp[1])

\* ------------------------------------------------- values of other modules
\* JavaScript values of more than one type: undefined, a string (a sequence
\* of characters), a Buffer / Uint8Array (a sequence of bytes), a number.
Undefined == [type |-> "undefined", str |-> <<>>, bytes |-> <<>>, num |-> 0]
Str(s) == [type |-> "string", str |-> s, bytes |-> <<>>, num |-> 0]
Buf(b) == [type |-> "buffer", str |-> <<>>, bytes |-> b, num |-> 0]
Num(n) == [type |-> "number", str |-> <<>>, bytes |-> <<>>, num |-> n]

\* auth.js before any call of it.
NoAuthCall ==
  [ op |-> "none",        \* resolveKeyMaterial | buildAuthorizationHeader
    ctx |-> [challenge |-> Undefined, telescopeId |-> Undefined, bootCount |-> Undefined],
    options |-> [keyMaterial |-> Undefined, keyFile |-> Undefined],
    key |-> <<>>,         \* <<keyBytes>> once the key is resolved
    result |-> Pending,
    read |-> {},          \* the paths the call called readFileSync with
    repeat |-> FALSE ]    \* history: the call before had the same op, ctx and key

\* A file system with nothing in it.
EmptyDisk == <<>>

\* A socket nothing has been registered on.
NoListeners == <<>>

\* auth.js and the socket client, not used.
InitAuthUnused ==
  /\ envKeyFile = Null
  /\ disk = EmptyDisk
  /\ reads = {}
  /\ auth = NoAuthCall

InitSocketUnused ==
  /\ listeners = NoListeners
  /\ commands = <<>>
  /\ emitted = <<>>
  /\ inbox = <<>>
  /\ arrived = <<>>
  /\ invoked = <<>>

\* No request with options sent yet, the key extraction tool not run yet.
NoSend == [op |-> "none"]
NoRun ==
  [ op |-> "none", args |-> [out |-> <<>>, smali |-> <<>>], ok |-> FALSE,
    alreadyPresent |-> FALSE, error |-> "", read |-> {}, runs |-> 0 ]

InitToolUnused ==
  /\ sent = NoSend
  /\ tool = NoRun

\* ------------------------------------------------------------------ actions
Init ==
  /\ \E n \in 0..MaxPrefixes :
       /\ prefixes = SubSeq(PrefixPool, 1, n)
       /\ net \in [1..n -> NetStates]
  /\ apiBasePath = DefaultApiBasePath
  /\ baseUrl = Null
  /\ routesCache = Null
  /\ loads = 0
  /\ stable = TRUE
  /\ call = [c \in Calls |-> IdleCall]
  /\ InitAuthUnused
  /\ InitSocketUnused
  /\ InitToolUnused

\* Slots are used once and in order.
CanStart(c) ==
  /\ call[c].pc = "idle"
  /\ \A d \in Calls : d < c => call[d].pc # "idle"

\* The caller calls client.detectBaseUrl().
StartDetect(c) ==
  /\ CanStart(c)
  /\ call' = [call EXCEPT ![c] =
       ProbeFrom([IdleCall EXCEPT !.seen = baseUrl, !.op = "detectBaseUrl"], 1)]
  /\ UNCHANGED <<prefixes, apiBasePath, baseUrl, routesCache, net, stable, loads, authVars, socketVars,
               toolVars>>

\* The caller calls client.request(method, path).
StartRequest(c, method, path) ==
  /\ CanStart(c)
  /\ call' = [call EXCEPT ![c] =
       Begin([IdleCall EXCEPT !.seen = baseUrl, !.op = "request", !.method = method,
                               !.arg = path])]
  /\ UNCHANGED <<prefixes, apiBasePath, baseUrl, routesCache, net, stable, loads, authVars, socketVars,
               toolVars>>

\* The caller calls client.callOperation(operationId).
StartCallOperation(c, operationId) ==
  /\ CanStart(c)
  /\ routesCache' = LoadRoutes
  /\ call' = [call EXCEPT ![c] =
       CallOperation([IdleCall EXCEPT !.seen = baseUrl, !.op = "callOperation",
                                       !.opId = operationId],
                     LoadRoutes[1])]
  /\ loads' = ManifestReads
  /\ UNCHANGED <<prefixes, apiBasePath, baseUrl, net, stable, authVars, socketVars, toolVars>>

\* The caller calls client.downloadImage(urlOrPath).
StartDownloadImage(c, urlOrPath) ==
  /\ CanStart(c)
  /\ call' = [call EXCEPT ![c] =
       Begin([IdleCall EXCEPT !.seen = baseUrl, !.op = "downloadImage", !.method = "GET",
                               !.arg = urlOrPath])]
  /\ UNCHANGED <<prefixes, apiBasePath, baseUrl, routesCache, net, stable, loads, authVars, socketVars,
               toolVars>>

\* The fetch of a probe settles before the timer: a response (ok or not) or
\* a rejection, as the network has it for that prefix.
ProbeSettle(c) ==
  /\ call[c].pc = "probe"
  /\ LET o == IF net[call[c].idx] = "down" THEN "throw" ELSE net[call[c].idx]
     IN /\ baseUrl' = BaseAfterProbe(call[c], o)
        /\ call' = [call EXCEPT ![c] = AfterProbe(call[c], o)]
  /\ UNCHANGED <<prefixes, apiBasePath, routesCache, net, stable, loads, authVars, socketVars,
               toolVars>>

\* The timer of a fetch in flight fires, the server not having answered
\* within timeoutMs: the signal is aborted and the fetch rejects with the
\* abort error.  A probe then counts as failed (the catch), request and
\* downloadImage reject.
TimerFire(c) ==
  /\ call[c].pc \in {"probe", "fetch"}
  /\ call[c].timer
  /\ call[c].pc = "probe" => net[call[c].idx] = "down"
  /\ call' = [Abort(call, c) EXCEPT ![c] = AfterAbort(@)]
  /\ UNCHANGED <<prefixes, apiBasePath, baseUrl, routesCache, net, stable, loads, authVars, socketVars,
               toolVars>>

\* The target fetch resolves: status and headers are there, the timer is
\* cleared, the body is still to be read.
FetchSettle(c, status, contentType) ==
  /\ call[c].pc = "fetch"
  /\ call' = [call EXCEPT ![c] =
       [ClearTimeout(call[c]) EXCEPT !.pc = "body", !.resp = <<status, contentType>>]]
  /\ UNCHANGED <<prefixes, apiBasePath, baseUrl, routesCache, net, stable, loads, authVars, socketVars,
               toolVars>>

\* The target fetch rejects (network error).
FetchFail(c) ==
  /\ call[c].pc = "fetch"
  /\ call' = [call EXCEPT ![c] =
       [ClearTimeout(call[c]) EXCEPT !.pc = "done", !.result = Thrown("NetworkError", 0)]]
  /\ UNCHANGED <<prefixes, apiBasePath, baseUrl, routesCache, net, stable, loads, authVars, socketVars,
               toolVars>>

\* The body has arrived: response.json() / text() / arrayBuffer() resolves
\* and the operation runs to its end.
BodySettle(c, body) ==
  /\ call[c].pc = "body"
  /\ call' = [call EXCEPT ![c] =
       [@ EXCEPT !.pc = "done",
                 !.body = body,
                 !.result = IF call[c].op = "downloadImage"
                              THEN ImageResult(call[c].resp, body)
                              ELSE RequestResult(call[c].resp, body)]]
  /\ UNCHANGED <<prefixes, apiBasePath, baseUrl, routesCache, net, stable, loads, authVars, socketVars,
               toolVars>>

\* The caller clears the cached base URL (client.baseUrl = null).
ClearBaseUrl ==
  /\ baseUrl # Null
  /\ baseUrl' = Null
  /\ UNCHANGED <<prefixes, apiBasePath, routesCache, net, stable, call, loads, authVars, socketVars,
               toolVars>>

\* The network changes, once: the probe of prefix i now gets outcome o.
NetChange(i, o) ==
  /\ stable
  /\ o # net[i]
  /\ net' = [net EXCEPT ![i] = o]
  /\ stable' = FALSE
  /\ UNCHANGED <<prefixes, apiBasePath, baseUrl, routesCache, call, loads, authVars, socketVars,
               toolVars>>

\* ------------------------------------------------------------------ inputs
\* "/app/status", "app/status"
Paths == { StatusPath, StripLeadingSlash(StatusPath) }
\* "appGetStatus" is in the manifest, "nope" is not.
OperationIds == {"appGetStatus", "nope"}
\* "/image", "http://cdn/image"
ImagePath == <<"/", "i", "m", "a", "g", "e">>
ImageUrls == { ImagePath, HttpScheme \o <<"c", "d", "n">> \o ImagePath }
\* "no"
BodyNo == <<110, 111>>

\* Statuses on both sides of response.ok.
Statuses == {199, 200, 299, 300, 400, 500}
RequestContentTypes == {CtNone, CtJson, CtJsonCharset, CtJsonUpper, CtText}
\* "", "{}", "[1]", "bad"
TextBodies == { <<>>, <<"{", "}">>, <<"[", "1", "]">>, <<"b", "a", "d">> }
ImageContentTypes == {CtNone, CtText, CtOctet, CtPng, CtPngUpper}

\* Every prefix of a few byte strings: each signature followed by a zero
\* byte, a RIFF container with and without the WEBP tag at offset 8, a GIF
\* with an unknown version, and plain text.
Prefixes(b) == { SubSeq(b, 1, k) : k \in 0..Len(b) }
ImageBodies ==
  UNION { Prefixes(b) : b \in
    { SigJpeg \o <<0>>, SigPng \o <<0>>, SigBmp \o <<0, 0>>, SigGif87 \o <<0>>,
      SigGif89 \o <<0>>, SigTiffLe \o <<0>>, SigTiffBe \o <<0>>,
      SigRiff \o <<0, 0, 0, 0>> \o SigWebp,
      SigRiff \o SigWebp \o <<0, 0, 0, 0>>,
      <<71, 73, 70, 56, 56, 97>>,
      BodyNo \o BodyNo } }

\* ---------------------------------------------------------- specifications
\* Any operations, overlapping in any way, on a network whose probe outcomes
\* are fixed, against a server that answers a target request with 200 or
\* not at all.
Next ==
  \/ \E c \in Calls : StartDetect(c)
  \/ \E c \in Calls : StartRequest(c, "GET", StatusPath)
  \/ \E c \in Calls, id \in OperationIds : StartCallOperation(c, id)
  \/ \E c \in Calls, u \in ImageUrls : StartDownloadImage(c, u)
  \/ \E c \in Calls : ProbeSettle(c)
  \/ \E c \in Calls : TimerFire(c)
  \/ \E c \in Calls : FetchSettle(c, 200, CtText)
  \/ \E c \in Calls :
       BodySettle(c, IF call[c].op = "downloadImage" THEN BodyNo ELSE <<"n", "o">>)
  \/ ClearBaseUrl

Spec == Init /\ [][Next]_vars

\* detectBaseUrl and request calls, overlapping in any way, on a network
\* that changes.
NextFlaky ==
  \/ \E c \in Calls : StartDetect(c)
  \/ \E c \in Calls : StartRequest(c, "GET", StatusPath)
  \/ \E c \in Calls : ProbeSettle(c)
  \/ \E c \in Calls : TimerFire(c)
  \/ \E c \in Calls : FetchSettle(c, 200, CtText)
  \/ \E c \in Calls : BodySettle(c, <<"n", "o">>)
  \/ ClearBaseUrl
  \/ \E i \in 1..Len(prefixes), o \in NetStates : NetChange(i, o)

SpecFlaky == Init /\ [][NextFlaky]_vars

\* The same as Spec, with what the runtime guarantees: an armed timer fires
\* unless it is cleared, and a probe settles (by its response, its rejection
\* or its timer).  Nothing makes the server answer a target request or send
\* a body.
FairSpec ==
  /\ Init
  /\ [][Next]_vars
  /\ \A c \in Calls :
       WF_vars(TimerFire(c)) /\ WF_vars(ProbeSettle(c))

\* One request or callOperation, against a server that answers anything.
NextRequest ==
  \/ \E m \in {"GET", "POST"}, p \in Paths : StartRequest(1, m, p)
  \/ \E id \in OperationIds : StartCallOperation(1, id)
  \/ ProbeSettle(1)
  \/ TimerFire(1)
  \/ \E st \in Statuses, ct \in RequestContentTypes : FetchSettle(1, st, ct)
  \/ FetchFail(1)
  \/ \E b \in TextBodies : BodySettle(1, b)

SpecRequest == Init /\ [][NextRequest]_vars

\* One downloadImage, against a server that answers anything.
NextImage ==
  \/ \E u \in ImageUrls : StartDownloadImage(1, u)
  \/ ProbeSettle(1)
  \/ TimerFire(1)
  \/ \E st \in {200, 404, 500}, ct \in ImageContentTypes : FetchSettle(1, st, ct)
  \/ FetchFail(1)
  \/ \E b \in ImageBodies : BodySettle(1, b)

SpecImage == Init /\ [][NextImage]_vars

\* ------------------------------------------------------------------ claims
\* Some prefix's probe gets a successful status.
SomeOk == \E i \in 1..Len(prefixes) : net[i] = "ok"

\* The earliest prefix, in configured order, whose probe gets one.
Earliest ==
  CHOOSE i \in 1..Len(prefixes) :
    net[i] = "ok" /\ \A j \in 1..(i - 1) : net[j] # "ok"

\* http://<host>:<port><prefix><apiBasePath> of the i-th prefix.
UrlOfPrefix(i) == HttpScheme \o Host \o <<":">> \o Port \o prefixes[i] \o apiBasePath

RequestOps == {"request", "callOperation", "downloadImage"}

\* C1: whenever the probe of at least one prefix gets a successful status, a
\* detection that ends has made exactly the probes up to the earliest such
\* prefix, returns http://<host>:<port><prefix><apiBasePath> of that prefix
\* and has stored it as the session's base URL; it never fails and never
\* takes the candidate of a later or of an unsuccessful prefix.
C1_EarliestSuccessfulPrefixWins ==
  [][\A c \in Calls :
       (SomeOk /\ call[c].pc = "probe" /\ call'[c].pc # "probe")
         => /\ call'[c].base = UrlOfPrefix(Earliest)
            /\ baseUrl' = UrlOfPrefix(Earliest)
            /\ call'[c].probes = Earliest
            /\ call'[c].result.tag # "error"
            /\ call[c].op = "detectBaseUrl"
                 => call'[c].result = Returned(UrlOfPrefix(Earliest))]_vars

\* A detectBaseUrl over <<"", "/stellina/http">> of which only the second
\* answers has returned and stored the second candidate.
C1_Witness ==
  \E c \in Calls :
    /\ Len(prefixes) = 2 /\ net[1] # "ok" /\ net[2] = "ok"
    /\ call[c].op = "detectBaseUrl" /\ call[c].pc = "done"
    /\ call[c].probes = 2
    /\ call[c].result = Returned(UrlOfPrefix(2))
    /\ baseUrl = UrlOfPrefix(2)

\* C2: when the probe of no configured prefix gets a successful status (the
\* list may be empty), a detection ends only after every prefix has been
\* probed, and then with BaseUrlNotDetected; nothing is cached and no target
\* request is sent.
C2_NoSuccessfulProbe ==
  (\A i \in 1..Len(prefixes) : net[i] # "ok")
    => /\ baseUrl = Null
       /\ \A c \in Calls :
            /\ call[c].pc \in {"idle", "probe", "done"}
            /\ call[c].pc = "probe" => call[c].probes = call[c].idx
            /\ (call[c].pc = "done" /\ call[c].result.name # "UnknownOperation")
                 => /\ call[c].result = Thrown("BaseUrlNotDetected", 0)
                    /\ call[c].probes = Len(prefixes)

\* A detectBaseUrl whose first probe got no response and whose second got a
\* non-success status has failed after both.
C2_Witness ==
  \E c \in Calls :
    /\ Len(prefixes) = 2 /\ net[1] = "down" /\ net[2] = "bad"
    /\ call[c].op = "detectBaseUrl" /\ call[c].pc = "done"
    /\ call[c].probes = 2
    /\ call[c].result = Thrown("BaseUrlNotDetected", 0)

\* urlOrPath.startsWith("http://") || urlOrPath.startsWith("https://")
IsAbsolute(u) == StartsWith(u, HttpScheme) \/ StartsWith(u, HttpsScheme)

\* A request, callOperation (of a known id) or downloadImage begins in slot c.
Begins(c) ==
  /\ call[c].pc = "idle"
  /\ call'[c].pc # "idle"
  /\ call'[c].op \in RequestOps
  /\ call'[c].result.name # "UnknownOperation"

\* C3 as stated: every request, callOperation and downloadImage that begins
\* while a base URL is cached sends no probe and fetches the cached base URL
\* joined with its path.
C3_CachedBaseAlwaysUsed ==
  [][\A c \in Calls :
       (Begins(c) /\ baseUrl # Null)
         => /\ call'[c].probes = 0
            /\ call'[c].url = baseUrl \o <<"/">> \o StripLeadingSlash(call'[c].arg)]_vars

\* C3, amended: a request, callOperation or downloadImage that begins while
\* a base URL is cached sends no probe and fetches the cached base URL joined
\* with its path, except that downloadImage of an absolute http:// or
\* https:// URL fetches that URL as given; one that begins while the base
\* URL is unset (never resolved, or cleared by the caller) detects first.
C3_CachedBaseUsedUnlessAbsolute ==
  [][\A c \in Calls :
       /\ (Begins(c) /\ baseUrl # Null)
            => /\ call'[c].probes = 0
               /\ call'[c].fetches = 1
               /\ call'[c].base = baseUrl
               /\ call'[c].url =
                    IF call'[c].op = "downloadImage" /\ IsAbsolute(call'[c].arg)
                      THEN call'[c].arg
                      ELSE baseUrl \o <<"/">> \o StripLeadingSlash(call'[c].arg)
       /\ (Begins(c) /\ baseUrl = Null)
            => \/ call'[c].pc = "probe" /\ call'[c].probes = 1
               \/ call'[c].result = Thrown("BaseUrlNotDetected", 0)]_vars

\* After a detectBaseUrl has resolved the base URL, a request has fetched
\* <base>/app/status without a probe.
C3_Witness ==
  \E c, d \in Calls :
    /\ call[c].op = "detectBaseUrl" /\ call[c].result.tag = "ok"
    /\ baseUrl = call[c].result.value
    /\ call[d].op = "request" /\ call[d].pc = "done"
    /\ call[d].probes = 0 /\ call[d].fetches = 1
    /\ call[d].url = baseUrl \o StatusPath

\* C4 as stated: once set, the base URL is never replaced by another value
\* by any client operation.
C4_NeverReplaced ==
  [][(baseUrl # Null /\ baseUrl' # Null) => baseUrl' = baseUrl]_vars

\* C4, amended: while the probe outcomes are unchanged, the base URL, once
\* set, is never replaced by another value by any client operation; the
\* base URL is written only by a detection (detectBaseUrl, or the detection
\* of a request or downloadImage that began while it was unset) whose probe
\* has just got a successful status, with that probe's candidate, so that a
\* detection run after the probe outcomes have changed may replace it.
C4_ReplacedOnlyAfterNetworkChange ==
  [][/\ (stable' /\ baseUrl # Null /\ baseUrl' # Null) => baseUrl' = baseUrl
     /\ (baseUrl' # baseUrl /\ baseUrl' # Null)
          => \E c \in Calls :
               /\ call[c].pc = "probe"
               /\ net[call[c].idx] = "ok"
               /\ baseUrl' = UrlOfPrefix(call[c].idx)
               /\ call'[c].base = baseUrl'
               /\ call'[c].pc # "probe"]_vars

\* On an unchanged network two detectBaseUrl calls have both succeeded and
\* the session holds the value both returned.
C4_Witness ==
  \E c, d \in Calls :
    /\ c # d /\ stable
    /\ call[c].op = "detectBaseUrl" /\ call[c].result.tag = "ok"
    /\ call[d].op = "detectBaseUrl" /\ call[d].result.tag = "ok"
    /\ call[d].result.value = call[c].result.value
    /\ baseUrl = call[c].result.value

\* C5: on a network whose probe outcomes are fixed and among which one is a
\* success, however the operations overlap, every call that gets a base URL
\* gets the candidate of the earliest successful prefix, no call fails to
\* detect, and no client step leaves the session with another base URL.
C5_ConcurrentCallsAgree ==
  [][SomeOk =>
       /\ \A c \in Calls :
            /\ call'[c].base \in {Null, UrlOfPrefix(Earliest)}
            /\ call'[c].pc \in {"fetch", "body"} => call'[c].base = UrlOfPrefix(Earliest)
            /\ call'[c].result.name # "BaseUrlNotDetected"
            /\ (call[c].pc = "probe" /\ call'[c].pc # "probe")
                 => baseUrl' = UrlOfPrefix(Earliest)
       /\ call' # call => baseUrl' \in {baseUrl, UrlOfPrefix(Earliest)}]_vars

\* Two requests that both began while the base URL was unset have both made
\* their own probes, both use the second prefix's candidate, and the session
\* holds it.
C5_Witness ==
  \E c, d \in Calls :
    /\ c # d
    /\ Len(prefixes) = 2 /\ net[1] # "ok" /\ net[2] = "ok"
    /\ call[c].op \in RequestOps /\ call[c].probes = 2 /\ call[c].pc = "fetch"
    /\ call[d].op \in RequestOps /\ call[d].probes = 2 /\ call[d].pc = "fetch"
    /\ call[c].base = UrlOfPrefix(2) /\ call[d].base = UrlOfPrefix(2)
    /\ baseUrl = UrlOfPrefix(2)

\* C6: a callOperation of an operationId that is not in the catalog has
\* failed with UnknownOperation and has sent nothing, neither a probe nor a
\* request.
C6_UnknownOperationNoNetwork ==
  \A c \in Calls :
    (call[c].op = "callOperation" /\ call[c].opId \notin DOMAIN Manifest)
      => /\ call[c].pc = "done"
         /\ call[c].result = Thrown("UnknownOperation", 0)
         /\ call[c].fetches = 0
         /\ call[c].probes = 0
         /\ call[c].url = Null

\* callOperation("nope") has failed without a fetch on a session whose base
\* URL is resolved.
C6_Witness ==
  \E c \in Calls :
    /\ baseUrl # Null
    /\ call[c].op = "callOperation" /\ call[c].opId = "nope"
    /\ call[c].result = Thrown("UnknownOperation", 0)
    /\ call[c].fetches = 0

\* C7: a request whose response has a non-success status has failed with
\* HttpError carrying that status, whatever the content type and the body.
C7_NonSuccessIsHttpError ==
  \A c \in Calls :
    (call[c].op \in {"request", "callOperation"} /\ call[c].pc = "done"
       /\ call[c].resp # <<>> /\ ~Ok(call[c].resp[1]))
      => call[c].result = Thrown("HttpError", call[c].resp[1])

\* The leading bytes of the body are one of the image signatures.
LeadingBytesMatch(b) ==
  \/ \E sig \in {SigJpeg, SigPng, SigBmp, SigGif87, SigGif89, SigTiffLe, SigTiffBe} :
       StartsWith(b, sig)
  \/ StartsWith(b, SigRiff) /\ Len(b) >= 12 /\ SubSeq(b, 9, 12) = SigWebp

\* A downloadImage has got a response with a non-success status.
ImageNonSuccess(c) ==
  /\ call[c].op = "downloadImage" /\ call[c].pc = "done"
  /\ call[c].resp # <<>> /\ ~Ok(call[c].resp[1])

\* C8 as stated: on a non-success status downloadImage returns the body if
\* its leading bytes match a signature or the content type starts with
\* image/, and fails with HttpError carrying the status otherwise.
C8_ImageIffSignature ==
  \A c \in Calls :
    ImageNonSuccess(c)
      => call[c].result =
           IF \/ LeadingBytesMatch(call[c].body)
              \/ StartsWith(ToLowerCase(call[c].resp[2]), ImagePrefix)
             THEN Returned(call[c].body)
             ELSE Thrown("HttpError", call[c].resp[1])

\* C8, amended: on a non-success status downloadImage returns the body if
\* the content type starts with image/ (in any letter case), or the body is
\* at least 4 bytes long and its leading bytes match a signature; otherwise
\* it fails with HttpError carrying the status.
C8_ImageIffSignatureOfFourBytes ==
  \A c \in Calls :
    ImageNonSuccess(c)
      => call[c].result =
           IF \/ Len(call[c].body) >= 4 /\ LeadingBytesMatch(call[c].body)
              \/ StartsWith(ToLowerCase(call[c].resp[2]), ImagePrefix)
             THEN Returned(call[c].body)
             ELSE Thrown("HttpError", call[c].resp[1])

\* A 500 with an octet-stream content type and the 8-byte PNG signature as
\* its body has been returned.
C8_Witness ==
  \E c \in Calls :
    /\ ImageNonSuccess(c)
    /\ call[c].resp = <<500, CtOctet>>
    /\ call[c].body = SigPng
    /\ call[c].result = Returned(SigPng)

\* C9: an operation that has begun settles: no operation stays pending for
\* ever, whatever the server does.
C9_EveryOperationSettles ==
  \A c \in Calls : (call[c].pc # "idle") ~> (call[c].pc = "done")

\* C10: a step of one call, its timeout included, leaves the abort signal
\* and the timer of every other call as they were; a call that times out
\* has its own signal aborted.
C10_TimeoutsAreIndependent ==
  [][\A c \in Calls :
       /\ call'[c] # call[c]
            => \A d \in Calls \ {c} :
                 /\ call'[d].aborted = call[d].aborted
                 /\ call'[d].timer = call[d].timer
       /\ (call[c].pc = "fetch" /\ call'[c].result.name = "TimeoutError")
            => /\ call'[c].aborted
               /\ \A d \in Calls \ {c} : call'[d] = call[d]]_vars

\* One call has timed out while another is still in flight with its timer
\* armed and its signal not aborted.
C10_Witness ==
  \E c, d \in Calls :
    /\ c # d
    /\ call[c].result = Thrown("TimeoutError", 0) /\ call[c].aborted
    /\ call[d].pc = "fetch" /\ call[d].timer /\ ~call[d].aborted
    /\ call[d].fetches > call[c].fetches

\* ------------------------------------------------------------------ auth.js
\* ------------------------------------------------------- characters, bytes
\* The characters of code 32..95 and of code 97..126, in code order.
AsciiLow ==
  <<" ", "!", "\"", "#", "$", "%", "&", "'", "(", ")", "*", "+", ",", "-", ".", "/", "0", "1",
     "2", "3", "4", "5", "6", "7", "8", "9", ":", ";", "<", "=", ">", "?", "@", "A", "B", "C",
     "D", "E", "F", "G", "H", "I", "J", "K", "L", "M", "N", "O", "P", "Q", "R", "S", "T", "U",
     "V", "W", "X", "Y", "Z", "[", "\\", "]", "^", "_">>
AsciiHigh == <<"a", "b", "c", "d", "e", "f", "g", "h", "i", "j", "k", "l", "m", "n", "o", "p",
     "q", "r", "s", "t", "u", "v", "w", "x", "y", "z", "{", "|", "}", "~">>

\* The code of a character; a line feed is the one character below 32 used.
CharCode(ch) ==
  IF ch = "\n" THEN 10
  ELSE IF \E k \in 1..Len(AsciiLow) : AsciiLow[k] = ch
    THEN 31 + (CHOOSE k \in 1..Len(AsciiLow) : AsciiLow[k] = ch)
  ELSE 96 + (CHOOSE k \in 1..Len(AsciiHigh) : AsciiHigh[k] = ch)

\* Buffer.from(text, "utf-8"), for text of these characters.
Utf8(s) == [i \in 1..Len(s) |-> CharCode(s[i])]

Digits == <<"0", "1", "2", "3", "4", "5", "6", "7", "8", "9">>

\* String(n) of a non-negative integer.
RECURSIVE NumberToString(_)
NumberToString(n) ==
  IF n < 10 THEN <<Digits[n + 1]>>
  ELSE NumberToString(n \div 10) \o <<Digits[(n % 10) + 1]>>

\* `${v}` in a template literal.
TemplateString(v) ==
  IF v.type = "string" THEN v.str
  ELSE IF v.type = "number" THEN NumberToString(v.num)
  ELSE <<"u", "n", "d", "e", "f", "i", "n", "e", "d">>

\* ------------------------------------------------------------------ base64
B64Alphabet == <<"A", "B", "C", "D", "E", "F", "G", "H", "I", "J", "K", "L", "M", "N", "O", "P",
     "Q", "R", "S", "T", "U", "V", "W", "X", "Y", "Z", "a", "b", "c", "d", "e", "f", "g", "h",
     "i", "j", "k", "l", "m", "n", "o", "p", "q", "r", "s", "t", "u", "v", "w", "x", "y", "z",
     "0", "1", "2", "3", "4", "5", "6", "7", "8", "9", "+", "/">>

\* The value of a base64 (or base64url) character, 64 for any other one.
Unbase64(ch) ==
  IF \E k \in 1..Len(B64Alphabet) : B64Alphabet[k] = ch
    THEN (CHOOSE k \in 1..Len(B64Alphabet) : B64Alphabet[k] = ch) - 1
  ELSE IF ch = "-" THEN 62
  ELSE IF ch = "_" THEN 63
  ELSE 64

\* The 6-bit values Buffer.from(s, "base64") decodes: characters outside the
\* alphabet are skipped, decoding stops at the first "=".
Sextets(s) ==
  LET stop == IF \E i \in 1..Len(s) : s[i] = "="
                THEN (CHOOSE i \in 1..Len(s) : s[i] = "=" /\ \A j \in 1..(i - 1) : s[j] # "=") - 1
                ELSE Len(s)
      legal == SelectSeq(SubSeq(s, 1, stop), LAMBDA ch : Unbase64(ch) < 64)
  IN [i \in 1..Len(legal) |-> Unbase64(legal[i])]

\* The bytes of a sequence of 6-bit values: one from two values, two from
\* three, three from four.
BytesOfSextets(x) ==
  [k \in 1..((Len(x) * 6) \div 8) |->
     LET i == 4 * ((k - 1) \div 3) + ((k - 1) % 3) + 1
     IN CASE (k - 1) % 3 = 0 -> ((x[i] * 4) + (x[i + 1] \div 16)) % 256
          [] (k - 1) % 3 = 1 -> ((x[i] % 16) * 16) + (x[i + 1] \div 4)
          [] OTHER -> ((x[i] % 4) * 64) + x[i + 1]]

\* Buffer.from(s, "base64")
Base64Decode(s) == BytesOfSextets(Sextets(s))

\* buffer.toString("base64")
Base64Encode(b) ==
  LET n == Len(b)
      At(k) == IF k <= n THEN b[k] ELSE 0
  IN [j \in 1..(4 * ((n + 2) \div 3)) |->
        LET i == 3 * ((j - 1) \div 4) + 1
            r == (j - 1) % 4
        IN CASE r = 0 -> B64Alphabet[(At(i) \div 4) + 1]
             [] r = 1 -> B64Alphabet[((At(i) % 4) * 16) + (At(i + 1) \div 16) + 1]
             [] r = 2 -> IF i + 1 > n THEN "="
                         ELSE B64Alphabet[((At(i + 1) % 16) * 4) + (At(i + 2) \div 64) + 1]
             [] OTHER -> IF i + 2 > n THEN "="
                         ELSE B64Alphabet[(At(i + 2) % 64) + 1]]

\* ------------------------------------------------------- SHA-512, Ed25519
\* The primitives are functions of their inputs with results of the right
\* length; a checksum stands for the cryptography, which no property below
\* depends on.
RECURSIVE Mix(_)
Mix(m) ==
  IF Len(m) = 0 THEN 1
  ELSE IF Len(m) = 1 THEN m[1] + 2
  ELSE LET half == Len(m) \div 2
       IN ((Mix(SubSeq(m, 1, half)) * 31) + (Mix(SubSeq(m, half + 1, Len(m))) * 7) + Len(m))
            % 65521

\* createHash("sha512").update(payload).digest(): 64 bytes.
Sha512(m) == LET h == Mix(m) IN [i \in 1..64 |-> ((h * i) + i) % 256]

\* nacl.sign.keyPair.fromSeed(seed).secretKey: the seed and its public key.
FromSeed(seed) ==
  LET h == Mix(seed) IN seed \o [i \in 1..32 |-> (h + (5 * i)) % 256]

\* nacl.sign.detached(msg, secretKey): the 64-byte signature.
Detached(msg, secretKey) ==
  LET h == Mix(secretKey \o msg) IN [i \in 1..64 |-> ((h * i) + (3 * i)) % 256]

\* nacl.sign(msg, secretKey): the signed message, signature then content.
NaclSign(msg, secretKey) == Detached(msg, secretKey) \o msg

\* -------------------------------------------------------- paths (POSIX)
\* s.split(sep), for a one-character separator.
RECURSIVE Split(_, _)
Split(s, sep) ==
  IF \E i \in 1..Len(s) : s[i] = sep
    THEN LET i == CHOOSE i \in 1..Len(s) : s[i] = sep /\ \A j \in 1..(i - 1) : s[j] # sep
         IN <<SubSeq(s, 1, i - 1)>> \o Split(SubSeq(s, i + 1, Len(s)), sep)
    ELSE <<s>>

\* The directories of a path with "", "." and ".." resolved; ".." at the
\* root stays at the root.
RECURSIVE WalkSegments(_, _)
WalkSegments(segs, stack) ==
  IF segs = <<>> THEN stack
  ELSE IF segs[1] = <<>> \/ segs[1] = <<".">> THEN WalkSegments(Tail(segs), stack)
  ELSE IF segs[1] = <<".", ".">>
    THEN WalkSegments(Tail(segs), IF stack = <<>> THEN stack ELSE SubSeq(stack, 1, Len(stack) - 1))
  ELSE WalkSegments(Tail(segs), Append(stack, segs[1]))

RECURSIVE JoinSegments(_)
JoinSegments(segs) ==
  IF segs = <<>> THEN <<>> ELSE <<"/">> \o segs[1] \o JoinSegments(Tail(segs))

\* process.cwd(), os.homedir(), os.tmpdir() and __dirname.
Cwd == <<"/", "w">>
HomeDir == <<"/", "h">>
TmpDir == <<"/", "t">>
DirName == <<"/", "r", "/", "n", "o", "d", "e", "/", "u", "/", "s", "r", "c">>

\* The text path.resolve normalizes: the parts from the last absolute one
\* on, after the working directory if none is absolute.
RECURSIVE JoinParts(_, _)
JoinParts(parts, acc) ==
  IF parts = <<>> THEN acc
  ELSE IF Len(parts[1]) > 0 /\ parts[1][1] = "/" THEN JoinParts(Tail(parts), parts[1])
  ELSE JoinParts(Tail(parts), acc \o <<"/">> \o parts[1])

\* path.resolve(...parts): an absolute path without "." and ".." segments,
\* without repeated or trailing slashes.  A backslash is an ordinary
\* character of a file name.
Resolve(parts) ==
  LET segs == WalkSegments(Split(JoinParts(parts, Cwd), "/"), <<>>)
  IN IF segs = <<>> THEN <<"/">> ELSE JoinSegments(segs)

\* s.replace(/[\\\/]+$/, "")
RECURSIVE StripTrailingSeparators(_)
StripTrailingSeparators(s) ==
  IF Len(s) > 0 /\ s[Len(s)] \in {"/", "\\"}
    THEN StripTrailingSeparators(SubSeq(s, 1, Len(s) - 1))
    ELSE s

\* String.prototype.endsWith
EndsWith(s, p) == Len(s) >= Len(p) /\ SubSeq(s, Len(s) - Len(p) + 1, Len(s)) = p

\* SAFE_KEY_ROOTS
SafeKeyRoots ==
  << Cwd, HomeDir, TmpDir, Resolve(<<DirName, <<".", ".">>>>), Resolve(<<DirName, <<".", ".",
     "/", ".", ".", "/", ".", ".">>>>) >>

\* normalizeForCompare, process.platform not being "win32".
NormalizeForCompare(value) == StripTrailingSeparators(Resolve(<<value>>))

\* isWithinRoot, from the two normalized paths on.
WithinNormalized(normalizedRoot, normalizedTarget) ==
  LET withSep == IF EndsWith(normalizedRoot, <<"\\">>) \/ EndsWith(normalizedRoot, <<"/">>)
                   THEN normalizedRoot
                   ELSE normalizedRoot
                          \o (IF Includes(normalizedRoot, <<"\\">>) THEN <<"\\">> ELSE <<"/">>)
  IN IF normalizedRoot = normalizedTarget THEN TRUE
     ELSE StartsWith(normalizedTarget, withSep)

\* isWithinRoot(root, target)
IsWithinRoot(root, target) ==
  WithinNormalized(NormalizeForCompare(root), NormalizeForCompare(target))

\* normalizeKeyPath, from the resolved path on: that path, or the error
\* thrown.
CheckResolved(resolved) ==
  IF \E k \in 1..Len(SafeKeyRoots) :
       SafeKeyRoots[k] # <<>> /\ IsWithinRoot(SafeKeyRoots[k], resolved)
    THEN [ok |-> TRUE, path |-> resolved, error |-> ""]
    ELSE [ok |-> FALSE, path |-> resolved, error |-> "PathNotAllowed"]

\* normalizeKeyPath(value)
NormalizeKeyPath(value) == CheckResolved(Resolve(<<value>>))

\* ------------------------------------------------------------ file system
\* What is at a path: a regular file with its text, or a directory.
File(text) == [kind |-> "file", text |-> text]
Directory == [kind |-> "dir", text |-> <<>>]

\* fs.existsSync(p)
ExistsSync(p) == Resolve(<<p>>) \in DOMAIN disk

\* String.prototype.trim, for spaces and line feeds.
RECURSIVE Trim(_)
Trim(s) ==
  IF Len(s) > 0 /\ s[1] \in {" ", "\n"} THEN Trim(Tail(s))
  ELSE IF Len(s) > 0 /\ s[Len(s)] \in {" ", "\n"} THEN Trim(SubSeq(s, 1, Len(s) - 1))
  ELSE s

\* What a call of auth.js comes to: the key it resolved (if it got that
\* far), its result, and the paths it called readFileSync with.
AuthOutcome(key, result, read) == [key |-> key, result |-> result, read |-> read]

\* readKeyFile, from the outcome of normalizeKeyPath on.
ReadSafePath(safe) ==
  IF ~safe.ok THEN AuthOutcome(<<>>, Thrown(safe.error, 0), {})
  ELSE IF safe.path \notin DOMAIN disk
    THEN AuthOutcome(<<>>, Thrown("ENOENT", 0), {safe.path})
  ELSE IF disk[safe.path].kind = "dir"
    THEN AuthOutcome(<<>>, Thrown("EISDIR", 0), {safe.path})
  ELSE AuthOutcome(<<Base64Decode(Trim(disk[safe.path].text))>>,
                   Returned(Base64Decode(Trim(disk[safe.path].text))), {safe.path})

\* readKeyFile(path)
ReadKeyFile(path) == ReadSafePath(NormalizeKeyPath(path))

\* ------------------------------------------------------- key resolution
\* A value is truthy: a non-empty string here.
Truthy(v) == v.type = "string" /\ v.str # <<>>

\* The candidates of findKeyPath, in order: the explicit path, the path of
\* the environment variable, ./.auth_key, the package's .auth_key and the
\* sibling python/.auth_key.
KeyFileName == <<".", "a", "u", "t", "h", "_", "k", "e", "y">>
Candidates(explicitPath) ==
  (IF Truthy(explicitPath) THEN <<explicitPath.str>> ELSE <<>>)
    \o (IF envKeyFile # Null THEN <<envKeyFile>> ELSE <<>>)
    \o << Resolve(<<Cwd, KeyFileName>>),
          Resolve(<<DirName, <<".", ".", "/", ".", "a", "u", "t", "h", "_", "k", "e", "y">>>>),
          Resolve(<<DirName, <<".", ".", "/", ".", ".", "/", ".", ".">>, <<"p", "y", "t", "h",
     "o", "n">>, KeyFileName>>) >>

\* What findKeyPath makes of a candidate: the normalized path if the
\* candidate exists and normalizeKeyPath does not throw, Null otherwise.
TryCandidate(candidate) ==
  IF candidate # <<>> /\ ExistsSync(candidate) THEN NormalizeKeyPath(candidate)
  ELSE [ok |-> FALSE, path |-> Null, error |-> ""]

\* The loop of findKeyPath over what it makes of each candidate.
FirstAccepted(tried) ==
  IF \E k \in 1..Len(tried) : tried[k].ok
    THEN tried[CHOOSE k \in 1..Len(tried) :
                 tried[k].ok /\ \A j \in 1..(k - 1) : ~tried[j].ok].path
    ELSE Null

\* The candidates, each tried.
TryAll(cs) == [k \in 1..Len(cs) |-> TryCandidate(cs[k])]

\* findKeyPath(explicitPath): the normalized path of the first candidate
\* that exists and is allowed, or Null.
FindKeyPath(explicitPath) == FirstAccepted(TryAll(Candidates(explicitPath)))

\* resolveKeyMaterial, from the outcome of findKeyPath on.
ReadFound(path) ==
  IF path = Null
    THEN AuthOutcome(<<>>, Thrown("KeyMaterialNotFound", 0), {})
    ELSE ReadKeyFile(path)

\* Buffer.from(keyMaterial, "base64") of a string, Buffer.from(keyMaterial)
\* of bytes.
BufferFrom(keyMaterial) ==
  IF keyMaterial.type = "string" THEN Base64Decode(keyMaterial.str) ELSE keyMaterial.bytes

\* A key given in memory.
InMemory(bytes) == AuthOutcome(<<bytes>>, Returned(bytes), {})

\* resolveKeyMaterial({keyMaterial, keyFile})
ResolveKeyMaterial(options) ==
  IF options.keyMaterial.type # "undefined"
    THEN InMemory(BufferFrom(options.keyMaterial))
    ELSE ReadFound(FindKeyPath(options.keyFile))

\* ----------------------------------------------------------------- signing
\* buildPayload(ctx): the bytes to hash, or the error thrown.
BuildPayload(ctx) ==
  IF ctx.challenge.type # "string" \/ Len(ctx.challenge.str) < 2
    THEN [ok |-> FALSE, bytes |-> <<>>, error |-> "InvalidChallenge"]
    ELSE LET challengeBytes == Base64Decode(Tail(ctx.challenge.str))
             tail == <<"|">> \o TemplateString(ctx.telescopeId)
                       \o <<"|">> \o TemplateString(ctx.bootCount)
         IN [ok |-> TRUE, bytes |-> challengeBytes \o Utf8(tail), error |-> ""]

\* signDigest with a signature that differs from the first call to the next.
SignDigestSalted(digest, keyBytes) ==
  LET salt == IF auth.op = "none" THEN <<0>> ELSE <<1>>
      secretKey == IF Len(keyBytes) = 32 THEN FromSeed(keyBytes) ELSE keyBytes
  IN IF Len(keyBytes) \in {32, 64}
       THEN [ok |-> TRUE, bytes |-> Detached(digest \o salt, secretKey) \o digest, error |-> ""]
       ELSE [ok |-> FALSE, bytes |-> <<>>, error |-> "UnsupportedKeyLength"]

\* signDigest returning the detached signature alone.
SignDigestDetached(digest, keyBytes) ==
  IF Len(keyBytes) = 64
    THEN [ok |-> TRUE, bytes |-> Detached(digest, keyBytes), error |-> ""]
  ELSE IF Len(keyBytes) = 32
    THEN [ok |-> TRUE, bytes |-> Detached(digest, FromSeed(keyBytes)), error |-> ""]
  ELSE [ok |-> FALSE, bytes |-> <<>>, error |-> "UnsupportedKeyLength"]

\* signDigest that cuts a longer key down to a 32-byte seed.
SignDigestTruncating(digest, keyBytes) ==
  IF Len(keyBytes) = 64
    THEN [ok |-> TRUE, bytes |-> NaclSign(digest, keyBytes), error |-> ""]
  ELSE IF Len(keyBytes) >= 32
    THEN [ok |-> TRUE, bytes |-> NaclSign(digest, FromSeed(SubSeq(keyBytes, 1, 32))), error |-> ""]
  ELSE [ok |-> FALSE, bytes |-> <<>>, error |-> "UnsupportedKeyLength"]

\* signDigest(digest, keyBytes): the signed message, or the error thrown.
SignDigest(digest, keyBytes) ==
  IF Len(keyBytes) = 64
    THEN [ok |-> TRUE, bytes |-> NaclSign(digest, keyBytes), error |-> ""]
  ELSE IF Len(keyBytes) = 32
    THEN [ok |-> TRUE, bytes |-> NaclSign(digest, FromSeed(keyBytes)), error |-> ""]
  ELSE [ok |-> FALSE, bytes |-> <<>>, error |-> "UnsupportedKeyLength"]

\* "Basic android|"
BasicAndroid == <<"B", "a", "s", "i", "c", " ", "a", "n", "d", "r", "o", "i", "d", "|">>

\* The header with the whole challenge where its first character belongs.
HeaderTextWholeChallenge(challenge, signatureB64) ==
  BasicAndroid \o challenge \o <<"|">> \o signatureB64

\* "Basic android|" + prefix + "|" + signatureB64 with prefix = ctx.challenge[0]
HeaderText(challenge, signatureB64) ==
  BasicAndroid \o <<challenge[1]>> \o <<"|">> \o signatureB64

\* buildAuthorizationHeader from the signed message on.
Finish(ctx, resolved, signedMessage) ==
  IF ~signedMessage.ok
    THEN AuthOutcome(resolved.key, Thrown(signedMessage.error, 0), resolved.read)
    ELSE AuthOutcome(resolved.key,
                     Returned(HeaderText(ctx.challenge.str, Base64Encode(signedMessage.bytes))),
                     resolved.read)

\* buildAuthorizationHeader from the payload on.
SignPayload(ctx, resolved, payload) ==
  IF ~payload.ok
    THEN AuthOutcome(resolved.key, Thrown(payload.error, 0), resolved.read)
    ELSE Finish(ctx, resolved, SignDigest(Sha512(payload.bytes), resolved.key[1]))

\* buildAuthorizationHeader from the resolved key on.
WithKey(ctx, resolved) ==
  IF resolved.result.tag = "error" THEN resolved
  ELSE SignPayload(ctx, resolved, BuildPayload(ctx))

\* buildAuthorizationHeader(ctx, options)
BuildAuthorizationHeader(ctx, options) == WithKey(ctx, ResolveKeyMaterial(options))

\* ----------------------------------------------------------- auth: actions
\* The HTTP client, not used.
InitClientUnused ==
  /\ prefixes = <<>>
  /\ net = <<>>
  /\ apiBasePath = DefaultApiBasePath
  /\ baseUrl = Null
  /\ routesCache = Null
  /\ loads = 0
  /\ stable = TRUE
  /\ call = [c \in Calls |-> IdleCall]

\* A call of auth.js as the state keeps it: its inputs and its outcome.
AuthCall(op, ctx, options, out) ==
  [ op |-> op, ctx |-> ctx, options |-> options,
    key |-> out.key, result |-> out.result, read |-> out.read,
    repeat |-> (auth.op = op /\ auth.ctx = ctx /\ auth.key = out.key /\ out.key # <<>>) ]

\* The caller calls buildAuthorizationHeader(ctx, options).
CallBuildAuthorizationHeader(ctx, options) ==
  /\ auth' = AuthCall("buildAuthorizationHeader", ctx, options,
                      BuildAuthorizationHeader(ctx, options))
  /\ reads' = reads \cup auth'.read
  /\ UNCHANGED <<envKeyFile, disk, clientVars, socketVars, toolVars>>

\* The caller calls resolveKeyMaterial(options).
CallResolveKeyMaterial(options) ==
  /\ auth' = AuthCall("resolveKeyMaterial", NoAuthCall.ctx, options, ResolveKeyMaterial(options))
  /\ reads' = reads \cup auth'.read
  /\ UNCHANGED <<envKeyFile, disk, clientVars, socketVars, toolVars>>

\* Somebody sets or unsets VAONIS_AUTH_KEY_FILE.
SetEnvKeyFile(value) ==
  /\ value # envKeyFile
  /\ envKeyFile' = value
  /\ UNCHANGED <<disk, reads, auth, clientVars, socketVars, toolVars>>

\* ------------------------------------------------------------ auth: inputs
\* Buffer.alloc(n, fill)
Alloc(n, fill) == [i \in 1..n |-> fill]

\* The keys of the tests (64 bytes of 1, 32 bytes of 3, 5 bytes of 1), a
\* key of no bytes and one of 33 bytes, as Buffers; 64 bytes of 2 as a
\* base64 string.
KeyMaterials ==
  { Buf(Alloc(64, 1)), Buf(Alloc(32, 3)), Buf(Alloc(5, 1)), Buf(<<>>), Buf(Alloc(33, 3)),
    Str(Base64Encode(Alloc(64, 2))) }

\* No challenge, "", "A", "A=", "AYWJj" (the test's makeChallenge("A",
\* "abc")), "BYQ" and "|YWJj".
Challenges ==
  { Undefined, Str(<<>>), Str(<<"A">>), Str(<<"A", "=">>), Str(<<"A", "Y", "W", "J", "j">>),
     Str(<<"B", "Y", "Q">>), Str(<<"|", "Y", "W", "J", "j">>) }

\* telescopeId "scope" and bootCount 1 with every challenge; bootCount 12
\* and "12" with the test's challenge.
Contexts ==
  { [challenge |-> c, telescopeId |-> Str(<<"s", "c", "o", "p", "e">>), bootCount |-> Num(1)] :
      c \in Challenges }
  \cup
  { [challenge |-> Str(<<"A", "Y", "W", "J", "j">>),
     telescopeId |-> Str(<<"s", "c", "o", "p", "e">>), bootCount |-> b] :
      b \in {Num(12), Str(<<"1", "2">>)} }

\* A key file: the base64 of 32 bytes of the given value, and a line feed.
KeyFileOf(fill) == File(Base64Encode(Alloc(32, fill)) \o <<"\n">>)

\* ./.auth_key
CwdKeyPath == Resolve(<<Cwd, KeyFileName>>)

\* ------------------------------------------------- auth: header building
\* buildAuthorizationHeader called again and again with a key in memory, or
\* with none and ./.auth_key missing, holding the 32-byte key of the tests
\* or empty, VAONIS_AUTH_KEY_FILE pointing at it or unset.
InitSign ==
  /\ InitClientUnused
  /\ InitSocketUnused
  /\ InitToolUnused
  /\ envKeyFile = Null
  /\ disk \in { EmptyDisk, [p \in {CwdKeyPath} |-> KeyFileOf(3)],
                [p \in {CwdKeyPath} |-> File(<<>>)] }
  /\ reads = {}
  /\ auth = NoAuthCall

NextSign ==
  \/ \E ctx \in Contexts, km \in KeyMaterials \cup {Undefined} :
       CallBuildAuthorizationHeader(ctx, [keyMaterial |-> km, keyFile |-> Undefined])
  \/ \E v \in {Null, CwdKeyPath} : SetEnvKeyFile(v)

SpecSign == InitSign /\ [][NextSign]_vars

\* ------------------------------------------------------------ auth: claims
\* The latest call is a buildAuthorizationHeader.
Built == auth.op = "buildAuthorizationHeader"

\* The challenge of the latest call is a string of at least two characters.
ValidChallenge == auth.ctx.challenge.type = "string" /\ Len(auth.ctx.challenge.str) >= 2

\* The latest call resolved a key of one of the given lengths.
KeyOfLength(lengths) == auth.key # <<>> /\ Len(auth.key[1]) \in lengths

\* C11: a buildAuthorizationHeader with a challenge c of at least two
\* characters and a resolved key of 32 or 64 bytes has returned a header
\* that starts with "Basic android|", then c[0], then "|".
C11_HeaderStartsWithPrefix ==
  (Built /\ ValidChallenge /\ KeyOfLength({32, 64}))
    => /\ auth.result.tag = "ok"
       /\ StartsWith(auth.result.value,
                     BasicAndroid \o <<auth.ctx.challenge.str[1]>> \o <<"|">>)

\* The header of challenge "BYQ" under a 32-byte key starts with
\* "Basic android|B|".
C11_Witness ==
  /\ Built
  /\ auth.ctx.challenge = Str(<<"B", "Y", "Q">>)
  /\ auth.options.keyMaterial = Buf(Alloc(32, 3))
  /\ auth.result.tag = "ok"
  /\ StartsWith(auth.result.value, <<"B", "a", "s", "i", "c", " ", "a", "n", "d", "r", "o", "i",
     "d", "|", "B", "|">>)

ClaimedPayload ==
  Base64Decode(SubSeq(auth.ctx.challenge.str, 2, Len(auth.ctx.challenge.str)))
    \o Utf8(<<"|">> \o TemplateString(auth.ctx.telescopeId)
              \o <<"|">> \o TemplateString(auth.ctx.bootCount))

\* The secret key that signs: the key itself, or the one derived from a
\* 32-byte seed.
SigningKey == IF Len(auth.key[1]) = 32 THEN FromSeed(auth.key[1]) ELSE auth.key[1]

\* A blob is a 64-byte signature of the digest followed by the 64-byte
\* digest of the claimed payload.
IsSignatureThenDigest(blob, digest) ==
  /\ Len(blob) = 128
  /\ Len(digest) = 64
  /\ SubSeq(blob, 65, 128) = digest
  /\ SubSeq(blob, 1, 64) = Detached(digest, SigningKey)

\* The third field of a text split at "|", empty if there is none.
ThirdField(fields) == IF Len(fields) >= 3 THEN fields[3] ELSE <<>>

\* C13 as stated: the third "|"-separated field of every header returned
\* decodes to a 64-byte signature followed by the 64-byte digest.
C13_ThirdFieldIsSignedDigest ==
  (Built /\ auth.result.tag = "ok")
    => IsSignatureThenDigest(Base64Decode(ThirdField(Split(auth.result.value, "|"))),
                             Sha512(ClaimedPayload))

\* What follows "Basic android|", the first character of the challenge and
\* "|" in a header.
AfterPrefix(header) == SubSeq(header, Len(BasicAndroid) + 3, Len(header))

\* C13, amended: in every header returned, with either key form, the text
\* after "Basic android|" + c[0] + "|" decodes to a 64-byte signature
\* followed by the 64-byte digest; it is the third "|"-separated field
\* whenever c[0] is not "|".
C13_BlobIsSignedDigest ==
  (Built /\ auth.result.tag = "ok")
    => /\ IsSignatureThenDigest(Base64Decode(AfterPrefix(auth.result.value)),
                                Sha512(ClaimedPayload))
       /\ auth.ctx.challenge.str[1] # "|"
            => ThirdField(Split(auth.result.value, "|")) = AfterPrefix(auth.result.value)

\* The header of the test's challenge "AYWJj" has been built under a 32-byte
\* seed and its third field is 172 characters of base64.
C13_Witness ==
  /\ Built /\ auth.result.tag = "ok"
  /\ auth.ctx.challenge = Str(<<"A", "Y", "W", "J", "j">>)
  /\ KeyOfLength({32})
  /\ Len(ThirdField(Split(auth.result.value, "|"))) = 172

\* C14: a buildAuthorizationHeader whose challenge is missing or shorter
\* than two characters has failed with InvalidChallenge, whatever the key
\* options.
C14_InvalidChallengeFirst ==
  (Built /\ ~ValidChallenge) => auth.result = Thrown("InvalidChallenge", 0)

\* C15: a buildAuthorizationHeader with a valid challenge and a resolved key
\* of a length other than 32 and 64 bytes has failed with
\* UnsupportedKeyLength.
C15_OtherKeyLengthsRejected ==
  (Built /\ ValidChallenge /\ auth.key # <<>> /\ Len(auth.key[1]) \notin {32, 64})
    => auth.result = Thrown("UnsupportedKeyLength", 0)

\* Keys of 0, 5 and 33 bytes: the latest call was refused for a key of 33
\* bytes given in memory.
C15_Witness ==
  /\ Built /\ ValidChallenge
  /\ KeyOfLength({33})
  /\ auth.result = Thrown("UnsupportedKeyLength", 0)

\* --------------------------------------------------- auth: key resolution
\* The most nodes a disk of the model holds.
MaxFiles == 2

\* Where key files may lie: paths a keyFile option or the environment
\* variable can name, under the roots (/w/k, /h/k), beside them (/w2/k,
\* /e/k, and the file "t\" of the root directory), and the three defaults.
PkgKeyPath == <<"/", "r", "/", "n", "o", "d", "e", "/", "u", "/", ".", "a", "u", "t", "h", "_",
     "k", "e", "y">>
PythonKeyPath == <<"/", "r", "/", "p", "y", "t", "h", "o", "n", "/", ".", "a", "u", "t", "h",
     "_", "k", "e", "y">>
TmpBackslash == <<"/", "t", "\\">>
DiskPathList ==
  << <<"/", "w", "/", "k">>, <<"/", "h", "/", "k">>, <<"/", "w", "2", "/", "k">>, <<"/", "e",
     "/", "k">>, TmpBackslash, CwdKeyPath, PkgKeyPath, PythonKeyPath >>
DiskPaths == {DiskPathList[i] : i \in 1..Len(DiskPathList)}

\* The key file at a path holds 32 bytes of a value of its own, 10 and the
\* place of the path in the list.
KeyFileAt(p) == KeyFileOf(10 + CHOOSE i \in 1..Len(DiskPathList) : DiskPathList[i] = p)

\* What may be at a path: its key file; at /w/k and ./.auth_key also an
\* empty file or a directory.
NodesAt(p) ==
  IF p \in {<<"/", "w", "/", "k">>, CwdKeyPath} THEN {KeyFileAt(p), File(<<>>),
     Directory} ELSE {KeyFileAt(p)}

\* The disks of at most MaxFiles nodes.
Disks ==
  UNION { { d \in [present -> UNION {NodesAt(p) : p \in present}] :
              \A p \in present : d[p] \in NodesAt(p) } :
          present \in {s \in SUBSET DiskPaths : Cardinality(s) <= MaxFiles} }

\* keyFile options: none, /w/k written absolutely, relatively and through
\* a "..", a sibling of the working directory, a path that leaves it
\* through "..", and the file "t\" of the root directory.
KeyFiles ==
  { Undefined, Str(<<"/", "w", "/", "k">>), Str(<<"k">>), Str(<<"/", "w", "/", "x", "/", ".",
     ".", "/", "k">>), Str(<<"/", "w", "2", "/", "k">>), Str(<<"/", "w", "/", ".", ".", "/", "e",
     "/", "k">>),
    Str(TmpBackslash) }

\* The options of a call: a keyFile alone, or a key in memory (32 bytes, or
\* the empty string) with and without a keyFile.
KeyOptions ==
  { [keyMaterial |-> Undefined, keyFile |-> f] : f \in KeyFiles }
  \cup { [keyMaterial |-> km, keyFile |-> f] :
           km \in {Buf(Alloc(32, 1)), Str(<<>>)}, f \in {Undefined, Str(<<"/", "w", "/", "k">>)} }

\* The ctx of the test, with bootCount 2.
TestContext ==
  [challenge |-> Str(<<"A", "Y", "W", "J", "j">>), telescopeId |-> Str(<<"s", "c", "o", "p",
     "e">>), bootCount |-> Num(2)]

\* Values of VAONIS_AUTH_KEY_FILE: unset, a file of the home directory, a
\* file outside the roots.
EnvKeyFiles == {Null, <<"/", "h", "/", "k">>, <<"/", "e", "/", "k">>}

InitKeys ==
  /\ InitClientUnused
  /\ InitSocketUnused
  /\ InitToolUnused
  /\ envKeyFile = Null
  /\ disk \in Disks
  /\ reads = {}
  /\ auth = NoAuthCall

\* One call per behaviour, the environment variable changing before it: the
\* module keeps no state from one call to the next.
NextKeys ==
  \/ \E options \in KeyOptions :
       auth = NoAuthCall /\ CallResolveKeyMaterial(options)
  \/ \E options \in KeyOptions :
       auth = NoAuthCall /\ CallBuildAuthorizationHeader(TestContext, options)
  \/ \E v \in EnvKeyFiles :
       auth = NoAuthCall /\ SetEnvKeyFile(v)

SpecKeys == InitKeys /\ [][NextKeys]_vars

\* The directories and the file name of a normalized path.
NonEmpty(seg) == seg # <<>>
SegmentsOf(path) == SelectSeq(Split(path, "/"), NonEmpty)

\* A normalized path is a root or lies under it: the segments of the root
\* begin those of the path.
UnderRoot(root, path) ==
  /\ Len(SegmentsOf(root)) <= Len(SegmentsOf(path))
  /\ SubSeq(SegmentsOf(path), 1, Len(SegmentsOf(root))) = SegmentsOf(root)

\* A path names, once normalized, a permitted root or a location under one.
Permitted(p) == \E k \in 1..Len(SafeKeyRoots) : UnderRoot(SafeKeyRoots[k], Resolve(<<p>>))

\* The paths the caller and the environment gave to the latest call.
GivenPaths ==
  (IF Truthy(auth.options.keyFile) THEN <<auth.options.keyFile.str>> ELSE <<>>)
    \o (IF envKeyFile # Null THEN <<envKeyFile>> ELSE <<>>)

\* The bytes a file source yields: the decoded text of the regular file at
\* the path, none if there is no such file.
FileBytes(p) ==
  IF Resolve(<<p>>) \in DOMAIN disk /\ disk[Resolve(<<p>>)].kind = "file"
    THEN Base64Decode(Trim(disk[Resolve(<<p>>)].text))
    ELSE <<>>

\* The bytes of the six sources of the claim, in its order.
SourceBytes ==
  << IF auth.options.keyMaterial = Undefined THEN <<>> ELSE BufferFrom(auth.options.keyMaterial),
     IF Truthy(auth.options.keyFile) THEN FileBytes(auth.options.keyFile.str) ELSE <<>>,
     IF envKeyFile # Null THEN FileBytes(envKeyFile) ELSE <<>>,
     FileBytes(<<"/", "w", "/", ".", "a", "u", "t", "h", "_", "k", "e", "y">>),
     FileBytes(<<"/", "r", "/", "n", "o", "d", "e", "/", "u", "/", ".", "a", "u", "t", "h", "_",
     "k", "e", "y">>),
     FileBytes(<<"/", "r", "/", "p", "y", "t", "h", "o", "n", "/", ".", "a", "u", "t", "h", "_",
     "k", "e", "y">>) >>

\* The key of the first source that yields bytes, or KeyMaterialNotFound.
FirstUsable(usable) ==
  IF usable = <<>> THEN Thrown("KeyMaterialNotFound", 0) ELSE Returned(usable[1])

\* C16: a resolveKeyMaterial whose file paths all lie under the permitted
\* roots has returned the bytes of the first of the six sources (keyMaterial,
\* keyFile, VAONIS_AUTH_KEY_FILE, ./.auth_key, the package's .auth_key,
\* python/.auth_key) that yields at least one byte, and has failed with
\* KeyMaterialNotFound if and only if none does.
C16_FirstUsableSourceWins ==
  (auth.op = "resolveKeyMaterial" /\ \A i \in 1..Len(GivenPaths) : Permitted(GivenPaths[i]))
    => auth.result = FirstUsable(SelectSeq(SourceBytes, NonEmpty))

\* C17: a call without keyMaterial whose first file-path candidate (the
\* keyFile option, else VAONIS_AUTH_KEY_FILE) names an existing file outside
\* every permitted root has failed with PathNotAllowed.
C17_OutsidePathIsPathNotAllowed ==
  ( /\ auth.op # "none"
    /\ auth.options.keyMaterial = Undefined
    /\ GivenPaths # <<>>
    /\ ~Permitted(GivenPaths[1])
    /\ ExistsSync(GivenPaths[1]) )
    => auth.result = Thrown("PathNotAllowed", 0)

\* C18: every file whose content a call has read lies at or under a
\* permitted root.
C18_ReadsOnlyUnderRoots == \A p \in reads : Permitted(p)

\* ------------------------------------------------------- the socket client
\* The most sendCommand calls, push messages and registrations of a
\* behaviour.
MaxCommands == 2
MaxMessages == 2
MaxListeners == 3

\* More JavaScript values: null, a function (a callback or handler, told
\* from the others by its number).
NullValue == [type |-> "null", str |-> <<>>, bytes |-> <<>>, num |-> 0]
Fn(n) == [type |-> "function", str |-> <<>>, bytes |-> <<>>, num |-> n]

\* if (callback): undefined and null are falsy, a function is truthy.
IsTruthyCallback(callback) == callback.type = "function"

\* const data = payload === undefined ? [command] : [command, payload]
CommandDataAlwaysPair(command, payload) == <<Str(command), payload>>

CommandData(command, payload) ==
  IF payload = Undefined THEN <<Str(command)>> ELSE <<Str(command), payload>>

\* A call socket.emit(event, data) or socket.emit(event, data, callback):
\* the event, the data argument and the arguments after it.
EmitCall(event, data, rest) == [event |-> event, data |-> data, rest |-> rest]

\* The fixed event of commands.
MessageEvent == <<"m", "e", "s", "s", "a", "g", "e">>

\* What sendCommand(command, payload, callback) passes to socket.emit.
EmitOfCommand(command, payload, callback) ==
  IF IsTruthyCallback(callback)
    THEN EmitCall(MessageEvent, CommandData(command, payload), <<callback>>)
    ELSE EmitCall(MessageEvent, CommandData(command, payload), <<>>)

\* sendCommand(command, payload = undefined, callback = undefined)
SendCommand(command, payload, callback) ==
  /\ Len(commands) < MaxCommands
  /\ commands' = Append(commands, [command |-> command, payload |-> payload,
                                   callback |-> callback])
  /\ emitted' = Append(emitted, EmitOfCommand(command, payload, callback))
  /\ UNCHANGED <<listeners, inbox, arrived, invoked, clientVars, authVars, toolVars>>

\* getStatus(callback = undefined): this.sendCommand("getStatus", undefined, callback)
GetStatus(callback) == SendCommand(<<"g", "e", "t", "S", "t", "a", "t", "u", "s">>, Undefined,
     callback)

\* The listeners of an event, in registration order.
ListenersOf(event) == IF event \in DOMAIN listeners THEN listeners[event] ELSE <<>>

\* How many registrations the socket holds.
RECURSIVE SumLen(_, _)
SumLen(f, events) ==
  IF events = {} THEN 0
  ELSE LET e == CHOOSE x \in events : TRUE IN Len(f[e]) + SumLen(f, events \ {e})
Registered == SumLen(listeners, DOMAIN listeners)

\* How many push messages have been dispatched: they are in arrival order.
Dispatched == Len(arrived) - Len(inbox)

\* this.socket.on(event, handler): the handler is added after the listeners
\* the event has, whether it is among them or not.  since: history, the
\* number of messages dispatched before.
On(event, handler) ==
  /\ Registered < MaxListeners
  /\ listeners' = [e \in DOMAIN listeners \cup {event} |->
                     IF e = event
                       THEN Append(ListenersOf(e), [handler |-> handler, since |-> Dispatched])
                       ELSE listeners[e]]
  /\ UNCHANGED <<commands, emitted, inbox, arrived, invoked, clientVars, authVars, toolVars>>

\* onStatusUpdated(handler), onControlError(handler), onEvent(event, handler)
StatusUpdated == <<"S", "T", "A", "T", "U", "S", "_", "U", "P", "D", "A", "T", "E", "D">>
ControlError == <<"C", "O", "N", "T", "R", "O", "L", "_", "E", "R", "R", "O", "R">>
OnStatusUpdated(handler) == On(StatusUpdated, handler)
OnControlError(handler) == On(ControlError, handler)
OnEvent(event, handler) == On(event, handler)

\* A push message of the instrument reaches the socket: the id-th message
\* received.
Receive(event) ==
  /\ Len(arrived) < MaxMessages
  /\ arrived' = Append(arrived, event)
  /\ inbox' = Append(inbox, [event |-> event, id |-> Len(arrived) + 1])
  /\ UNCHANGED <<listeners, commands, emitted, invoked, clientVars, authVars, toolVars>>

\* The calls the emitter makes for a message, each listener called once for
\* each handler, however often the handler is registered.
RECURSIVE InvocationsOncePerHandler(_, _)
InvocationsOncePerHandler(ls, msg) ==
  IF ls = <<>> THEN <<>>
  ELSE LET front == SubSeq(ls, 1, Len(ls) - 1)
           last == ls[Len(ls)]
       IN IF \E i \in 1..Len(front) : front[i].handler = last.handler
            THEN InvocationsOncePerHandler(front, msg)
            ELSE Append(InvocationsOncePerHandler(front, msg),
                        [handler |-> last.handler, event |-> msg.event, msg |-> msg.id])

\* The calls the emitter makes for a message: the listeners of its event,
\* one after the other, in registration order.
Invocations(ls, msg) ==
  [i \in 1..Len(ls) |-> [handler |-> ls[i].handler, event |-> msg.event, msg |-> msg.id]]

\* The event loop takes the oldest message received and the socket emits its
\* event: the listeners run one after the other before anything else does.
Dispatch ==
  /\ inbox # <<>>
  /\ inbox' = Tail(inbox)
  /\ invoked' = invoked \o Invocations(ListenersOf(Head(inbox).event), Head(inbox))
  /\ UNCHANGED <<listeners, commands, emitted, arrived, clientVars, authVars, toolVars>>

\* ----------------------------------------------------------- socket: inputs
\* The commands of the helpers, and a name that is not among them.
Catalog ==
  { <<"t", "a", "k", "e", "C", "o", "n", "t", "r", "o", "l">>, <<"r", "e", "l", "e", "a", "s",
     "e", "C", "o", "n", "t", "r", "o", "l">>, <<"s", "e", "t", "S", "y", "s", "t", "e", "m",
     "T", "i", "m", "e">>, <<"s", "e", "t", "U", "s", "e", "r", "N", "a", "m", "e">>, <<"g", "e",
     "t", "S", "t", "a", "t", "u", "s">>,
    <<"r", "e", "s", "t", "a", "r", "t", "A", "p", "p">>, <<"s", "h", "u", "t", "d", "o", "w",
     "n">> }
CommandNames == { <<"g", "e", "t", "S", "t", "a", "t", "u", "s">>, <<"t", "a", "k", "e", "C",
     "o", "n", "t", "r", "o", "l">>, <<"s", "e", "l", "f", "D", "e", "s", "t", "r", "u", "c",
     "t">> }

\* No payload, null, 0, the empty string, a timestamp.
Payloads == { Undefined, NullValue, Num(0), Str(<<>>), Num(1700) }

\* No callback, or one.
Callbacks == { Undefined, Fn(1) }

\* The events of the two helpers and one only onEvent can name; two handlers.
PushEvents == { StatusUpdated, ControlError, <<"p", "o", "n", "g">> }
Handlers == { Fn(1), Fn(2) }

InitSocket ==
  /\ InitClientUnused
  /\ InitAuthUnused
  /\ InitSocketUnused
  /\ InitToolUnused

\* Commands are sent.
NextSend ==
  \/ \E command \in CommandNames, payload \in Payloads, callback \in Callbacks :
       SendCommand(command, payload, callback)
  \/ \E callback \in Callbacks : GetStatus(callback)

SpecSend == InitSocket /\ [][NextSend]_vars

\* Handlers are registered and push messages are received and dispatched.
NextPush ==
  \/ \E handler \in Handlers : OnStatusUpdated(handler)
  \/ \E handler \in Handlers : OnControlError(handler)
  \/ \E event \in PushEvents, handler \in Handlers : OnEvent(event, handler)
  \/ \E event \in PushEvents : Receive(event)
  \/ Dispatch

SpecPush == InitSocket /\ [][NextPush]_vars

\* ----------------------------------------------------------- socket: claims
\* The data argument the claim gives a command: [name] without a payload,
\* [name, payload] with one.
ClaimedData(c) ==
  IF c.payload = Undefined THEN <<Str(c.command)>> ELSE <<Str(c.command), c.payload>>

\* The arguments after the data: the callback if one was supplied.
ClaimedRest(c) == IF c.callback = Undefined THEN <<>> ELSE <<c.callback>>

\* C19: every sendCommand, whatever the command name and the payload, has
\* made exactly one emit, under the event "message", with the data [name]
\* if no payload was given and [name, payload] otherwise, followed by the
\* callback if and only if one was supplied; names outside the catalog are
\* sent like the others.
C19_OneEmitPerCommand ==
  /\ Len(emitted) = Len(commands)
  /\ \A i \in 1..Len(commands) :
       /\ emitted[i].event = MessageEvent
       /\ emitted[i].data = ClaimedData(commands[i])
       /\ emitted[i].rest = ClaimedRest(commands[i])

\* A command outside the catalog has been sent with the payload 0 and a
\* callback, after a command without payload and callback.
C19_Witness ==
  /\ Len(commands) = 2
  /\ commands[1].payload = Undefined /\ commands[1].callback = Undefined
  /\ Len(emitted[1].data) = 1 /\ emitted[1].rest = <<>>
  /\ commands[2].command \notin Catalog
  /\ commands[2].payload = Num(0) /\ commands[2].callback = Fn(1)
  /\ emitted[2] = EmitCall(MessageEvent, <<Str(commands[2].command), Num(0)>>, <<Fn(1)>>)

\* How often a handler has been invoked for the m-th message received.
TimesInvoked(handler, m) ==
  Cardinality({i \in 1..Len(invoked) : invoked[i].handler = handler /\ invoked[i].msg = m})

\* The invocations follow the arrival order of their messages.
InArrivalOrder == \A i, j \in 1..Len(invoked) : i < j => invoked[i].msg <= invoked[j].msg

HandlersAt(ls, m) ==
  LET Before(r) == r.since < m
      rs == SelectSeq(ls, Before)
  IN [i \in 1..Len(rs) |-> rs[i].handler]

\* The handlers invoked for the m-th message, in the order of the calls.
InvokedFor(m) ==
  LET Of(x) == x.msg = m
      xs == SelectSeq(invoked, Of)
  IN [i \in 1..Len(xs) |-> xs[i].handler]

MaxParams == 2

\* String(value), for the values a parameter takes here.
StringOf(v) == IF v.type = "null" THEN <<"n", "u", "l", "l">> ELSE TemplateString(v)

\* A property of an object: its name and its value.
Entry(name, value) == [name |-> name, value |-> value]

\* A property of params: an array of items, or any other value.
Property(key, isArray, value, items) ==
  [key |-> key, isArray |-> isArray, value |-> value, items |-> items]

\* The first entry of that name.
FirstNamed(list, name) ==
  CHOOSE i \in 1..Len(list) :
    list[i].name = name /\ \A j \in 1..(i - 1) : list[j].name # name

\* url.searchParams.set(name, value): the first entry of that name takes the
\* value and the other entries of that name go; with none, one is appended.
SearchParamsSet(query, name, value) ==
  IF \E i \in 1..Len(query) : query[i].name = name
    THEN LET first == FirstNamed(query, name)
             marked == [i \in 1..Len(query) |->
                          [keep |-> (i = first \/ query[i].name # name),
                           entry |-> IF i = first THEN Entry(name, value) ELSE query[i]]]
             IsKept(m) == m.keep
             kept == SelectSeq(marked, IsKept)
         IN [i \in 1..Len(kept) |-> kept[i].entry]
    ELSE Append(query, Entry(name, value))

\* `for (const item of value) url.searchParams.append(key, String(item))`.
SearchParamsAppendAll(query, key, items) ==
  query \o [i \in 1..Len(items) |-> Entry(key, StringOf(items[i]))]

\* items.join(","): what Array.prototype.toString gives.
RECURSIVE JoinItems(_)
JoinItems(items) ==
  IF items = <<>> THEN <<>>
  ELSE IF Len(items) = 1 THEN StringOf(items[1])
  ELSE StringOf(items[1]) \o <<",">> \o JoinItems(Tail(items))

\* buildQuery with an array handed to String() like any other value.
AddParameterJoined(query, p) ==
  IF p.isArray THEN SearchParamsSet(query, p.key, JoinItems(p.items))
  ELSE IF p.value.type \notin {"undefined", "null"}
    THEN SearchParamsSet(query, p.key, StringOf(p.value))
  ELSE query

\* The body of buildQuery's loop, for one property of params.
AddParameter(query, p) ==
  IF p.isArray THEN SearchParamsAppendAll(query, p.key, p.items)
  ELSE IF p.value.type \notin {"undefined", "null"}
    THEN SearchParamsSet(query, p.key, StringOf(p.value))
  ELSE query

\* buildQuery(url, params): the properties in the order of Object.entries;
\* params without properties (and null, which `!params` returns on) add nothing.
RECURSIVE BuildQuery(_, _)
BuildQuery(query, params) ==
  IF params = <<>> THEN query
  ELSE BuildQuery(AddParameter(query, Head(params)), Tail(params))

\* What `new URL(text)` takes for the query of the text: the entries after
\* the "?", name and value parted at the first "=".
ParseEntry(text) ==
  LET parts == Split(text, "=")
  IN Entry(parts[1], IF Len(parts) > 1 THEN parts[2] ELSE <<>>)

ParseQuery(text) ==
  LET parts == Split(text, "?")
      fields == IF Len(parts) > 1 THEN Split(parts[2], "&") ELSE <<>>
  IN [i \in 1..Len(fields) |-> ParseEntry(fields[i])]

\* The text before the "?".
WithoutQuery(text) == Split(text, "?")[1]

\* url.toString(): the query after a "?", its entries joined by "&".
RECURSIVE SerializeQuery(_)
SerializeQuery(query) ==
  IF query = <<>> THEN <<>>
  ELSE query[1].name \o <<"=">> \o query[1].value
       \o (IF Len(query) > 1 THEN <<"&">> \o SerializeQuery(Tail(query)) ELSE <<>>)

UrlToString(href, query) ==
  IF query = <<>> THEN href ELSE href \o <<"?">> \o SerializeQuery(query)

\* obj[name] = value: the property of that name takes the value, a new
\* property goes last.
SetProperty(obj, name, value) ==
  IF \E i \in 1..Len(obj) : obj[i].name = name
    THEN [obj EXCEPT ![FirstNamed(obj, name)].value = value]
    ELSE Append(obj, Entry(name, value))

\* !obj[name]: no such property, or an empty string in it.
IsFalsyProperty(obj, name) ==
  \A i \in 1..Len(obj) : obj[i].name = name => obj[i].value = <<>>

AuthorizationName == <<"A", "u", "t", "h", "o", "r", "i", "z", "a", "t", "i", "o", "n">>
ContentTypeName == <<"C", "o", "n", "t", "e", "n", "t", "-", "T", "y", "p", "e">>

\* An object of JSON with string values in its properties.
Obj(props) == [type |-> "object", str |-> <<>>, bytes |-> <<>>, num |-> 0, props |-> props]

Quoted(s) == <<"\"">> \o s \o <<"\"">>

RECURSIVE StringifyProps(_)
StringifyProps(props) ==
  IF props = <<>> THEN <<>>
  ELSE Quoted(props[1].name) \o <<":">> \o Quoted(props[1].value)
       \o (IF Len(props) > 1 THEN <<",">> \o StringifyProps(Tail(props)) ELSE <<>>)

\* JSON.stringify(value), for null, numbers, plain strings and such objects.
JsonStringify(v) ==
  IF v.type = "null" THEN <<"n", "u", "l", "l">>
  ELSE IF v.type = "number" THEN NumberToString(v.num)
  ELSE IF v.type = "string" THEN Quoted(v.str)
  ELSE <<"{">> \o StringifyProps(v.props) \o <<"}">>

\* resolvedHeaders: the caller's headers, Authorization under `if (auth)`,
\* Content-Type under `if (!resolvedHeaders["Content-Type"])` when jsonBody
\* is given.
ResolvedHeaders(options) ==
  LET withAuth == IF Truthy(options.auth)
                    THEN SetProperty(options.headers, AuthorizationName, options.auth.str)
                    ELSE options.headers
  IN IF options.jsonBody.type # "undefined" /\ IsFalsyProperty(withAuth, ContentTypeName)
       THEN SetProperty(withAuth, ContentTypeName, CtJson)
       ELSE withAuth

\* resolvedBody.
ResolvedBody(options) ==
  IF options.jsonBody.type # "undefined" THEN Str(JsonStringify(options.jsonBody))
  ELSE options.body

\* What fetch makes of the headers object: each property is appended under
\* its name in lower case, a second value of a name joins the first one
\* after ", ".
RECURSIVE HeadersOf(_, _)
HeadersOf(obj, acc) ==
  IF obj = <<>> THEN acc
  ELSE LET name == ToLowerCase(obj[1].name)
           next == IF \E i \in 1..Len(acc) : acc[i].name = name
                     THEN [acc EXCEPT ![FirstNamed(acc, name)].value =
                             @ \o <<",", " ">> \o obj[1].value]
                     ELSE Append(acc, Entry(name, obj[1].value))
       IN HeadersOf(Tail(obj), next)

\* The call of fetch request() makes once the base URL is known.
FetchOfRequest(method, path, options) ==
  LET text == JoinUrl(baseUrl, path)
      query == BuildQuery(ParseQuery(text), options.params)
  IN [ op |-> "request", method |-> method, path |-> path, options |-> options,
       query |-> query,
       url |-> UrlToString(WithoutQuery(text), query),
       headers |-> HeadersOf(ResolvedHeaders(options), <<>>),
       body |-> ResolvedBody(options) ]

\* client.request(method, path, options) on a client whose base URL is
\* resolved, up to its call of fetch.
RequestWith(method, path, options) ==
  /\ sent = NoSend
  /\ baseUrl # Null
  /\ sent' = FetchOfRequest(method, path, options)
  /\ UNCHANGED <<clientVars, authVars, socketVars, tool>>

\* ------------------------------------------------------- request: inputs
ParamKeys == <<<<"a">>, <<"b">>, <<"c">>>>

\* undefined, null, a number, the empty string; an empty array, an array
\* of strings, an array of a number and null.
ParamShapes ==
  { [isArray |-> FALSE, value |-> v, items |-> <<>>] :
      v \in {Undefined, NullValue, Num(1), Str(<<>>)} }
  \cup { [isArray |-> TRUE, value |-> Undefined, items |-> items] :
      items \in { <<>>, <<Str(<<"x">>), Str(<<"y">>)>>, <<Num(1), NullValue>> } }

\* params objects of up to MaxParams properties, none for no params.
ParamsPool ==
  UNION { { [i \in 1..n |-> Property(ParamKeys[i], shape[i].isArray, shape[i].value,
                                     shape[i].items)] :
              shape \in [1..n -> ParamShapes] } : n \in 0..MaxParams }

\* A path, and paths that bring a query of their own.
QueryPaths == { StatusPath, StatusPath \o <<"?", "a", "=", "0">>, StatusPath \o <<"?", "b", "=",
     "z", "&", "a", "=", "0", "&", "a", "=", "2">> }

TextPlain == <<"t", "e", "x", "t", "/", "p", "l", "a", "i", "n">>

\* No headers, a content type under the name the code looks up and under
\* the name in lower case, another header.
HeaderObjects ==
  { <<>>, <<Entry(ContentTypeName, TextPlain)>>,
    <<Entry(ToLowerCase(ContentTypeName), TextPlain)>>, <<Entry(<<"X", "-", "A">>, <<"1">>)>> }

JsonBodies == { Undefined, NullValue, Obj(<<Entry(<<"h", "e", "l", "l", "o">>, <<"w", "o", "r",
     "l", "d">>)>>) }

OptionsPool ==
  [ auth : {NullValue, Str(<<"t", "o", "k", "e", "n">>)}, params : ParamsPool,
     jsonBody : JsonBodies,
    body : {Undefined, Str(<<"r", "a", "w">>)}, headers : HeaderObjects ]

\* A client whose base URL is resolved.
InitOptions ==
  /\ prefixes = SubSeq(PrefixPool, 1, 1)
  /\ net = <<"ok">>
  /\ apiBasePath = DefaultApiBasePath
  /\ baseUrl = MakeBaseUrl(PrefixPool[1])
  /\ routesCache = Null
  /\ loads = 0
  /\ stable = TRUE
  /\ call = [c \in Calls |-> IdleCall]
  /\ InitAuthUnused
  /\ InitSocketUnused
  /\ InitToolUnused

NextOptions ==
  \E method \in {"POST"}, path \in QueryPaths, options \in OptionsPool :
    RequestWith(method, path, options)

SpecOptions == InitOptions /\ [][NextOptions]_vars

\* ------------------------------------------ request: the claims about it
\* The values of the entries of that name, in the order of the query.
ValuesNamed(query, name) ==
  LET IsNamed(e) == e.name = name
      named == SelectSeq(query, IsNamed)
  IN [i \in 1..Len(named) |-> named[i].value]

\* The query of the URL fetch was called with, and the query the path of
\* the request brought with it.
QueryOfUrl == ParseQuery(sent.url)
QueryOfPath == ParseQuery(JoinUrl(baseUrl, sent.path))

\* C21: in the URL of a request, every array-valued parameter has one entry
\* per item, String(item) under the parameter's name and in item order (after
\* the entries the path brought under that name); every other parameter that
\* is not null or undefined has exactly one entry, String(value); a null or
\* undefined parameter adds no entry.
C21_QueryEntriesPerParameter ==
  sent # NoSend =>
    \A k \in 1..Len(sent.options.params) :
      LET p == sent.options.params[k]
          now == ValuesNamed(QueryOfUrl, p.key)
          before == ValuesNamed(QueryOfPath, p.key)
      IN IF p.isArray
           THEN now = before \o [i \in 1..Len(p.items) |-> StringOf(p.items[i])]
         ELSE IF p.value.type \in {"undefined", "null"} THEN now = before
         ELSE now = <<StringOf(p.value)>>

\* The request of the tests: params { a: 1, b: ["x", "y"] } gives a=1, b=x, b=y.
C21_Witness ==
  /\ sent # NoSend
  /\ sent.path = StatusPath
  /\ sent.options.params = << Property(<<"a">>, FALSE, Num(1), <<>>),
                              Property(<<"b">>, TRUE, Undefined, <<Str(<<"x">>), Str(<<"y">>)>>) >>
  /\ QueryOfUrl = <<Entry(<<"a">>, <<"1">>), Entry(<<"b">>, <<"x">>), Entry(<<"b">>, <<"y">>)>>

\* The content types the caller's headers set, under whatever case of the
\* header's name, and the content types of the request sent.
CallerContentTypes ==
  LET IsContentType(e) == ToLowerCase(e.name) = ToLowerCase(ContentTypeName)
      given == SelectSeq(sent.options.headers, IsContentType)
  IN [i \in 1..Len(given) |-> given[i].value]

SentContentTypes == ValuesNamed(sent.headers, ToLowerCase(ContentTypeName))

\* C22: when jsonBody is given, the body sent is JSON.stringify(jsonBody) and
\* the request carries the content type application/json, unless the
\* caller's headers set a content type: then the caller's value is the only
\* content type sent.
C22_JsonBodyAndContentType ==
  (sent # NoSend /\ sent.options.jsonBody.type # "undefined") =>
    /\ sent.body = Str(JsonStringify(sent.options.jsonBody))
    /\ SentContentTypes = (IF CallerContentTypes = <<>> THEN <<CtJson>> ELSE CallerContentTypes)

\* ----------------------------------- the HTTP client: one call of any kind
\* The base URL the tests assign to a client: "http://example:8082/v1".
PresetBaseUrl == <<"h", "t", "t", "p", ":", "/", "/", "e", "x", "a", "m", "p", "l", "e", ":",
     "8", "0", "8", "2", "/", "v", "1">>

\* A client as constructed, or with a base URL assigned by its owner.
InitOne ==
  /\ \E n \in 0..MaxPrefixes :
       /\ prefixes = SubSeq(PrefixPool, 1, n)
       /\ net \in [1..n -> NetStates]
  /\ apiBasePath = DefaultApiBasePath
  /\ baseUrl \in {Null, PresetBaseUrl}
  /\ routesCache = Null
  /\ loads = 0
  /\ stable = TRUE
  /\ call = [c \in Calls |-> IdleCall]
  /\ InitAuthUnused
  /\ InitSocketUnused
  /\ InitToolUnused

\* One call, of any of the four operations, against a server that answers
\* anything.
NextOne ==
  \/ StartDetect(1)
  \/ \E m \in {"GET", "POST"}, p \in Paths : StartRequest(1, m, p)
  \/ \E id \in OperationIds : StartCallOperation(1, id)
  \/ \E u \in ImageUrls : StartDownloadImage(1, u)
  \/ ProbeSettle(1)
  \/ TimerFire(1)
  \/ \E st \in Statuses, ct \in RequestContentTypes :
       call[1].op # "downloadImage" /\ FetchSettle(1, st, ct)
  \/ \E st \in {200, 404, 500}, ct \in ImageContentTypes :
       call[1].op = "downloadImage" /\ FetchSettle(1, st, ct)
  \/ FetchFail(1)
  \/ \E b \in TextBodies : call[1].op # "downloadImage" /\ BodySettle(1, b)
  \/ \E b \in ImageBodies : call[1].op = "downloadImage" /\ BodySettle(1, b)

SpecOne == InitOne /\ [][NextOne]_vars

\* ------------------------------------- the HTTP client: further claims
\* The media type a content-type header declares: what stands before the
\* first ";", compared without regard to case.
MediaType(contentType) == ToLowerCase(Trim(Split(contentType, ";")[1]))
DeclaresJson(contentType) == MediaType(contentType) = CtJson

\* The request and callOperation calls that are done with a response of
\* successful status.
Succeeded(r) == r.op \in {"request", "callOperation"} /\ r.pc = "done" /\ r.resp # Null /\ Ok(r.resp[1])

\* C23: for a successful response, request returns the decoded JSON value
\* when the response declares a JSON content type (and its body is a JSON
\* document), and the text of the body as it is otherwise.
C23_DecodedByDeclaredContentType ==
  \A c \in Calls :
    Succeeded(call[c]) =>
      IF DeclaresJson(call[c].resp[2])
        THEN JsonParse(call[c].body).ok =>
               call[c].result = Returned(JsonParse(call[c].body).value)
        ELSE call[c].result = Returned(call[c].body)

\* What a call of request(method, path) is at any moment: it carries that
\* method and path; while it detects it fetches the status path of a
\* candidate; its target fetch, the only one, goes to the path joined to the
\* base URL; done, it has request's result for the response and body
\* received, or the error of the detection or of the fetch.
ActsAsRequest(r, method, path) ==
  /\ r.method = method
  /\ r.arg = path
  /\ r.pc = "probe" => r.url = Candidate(r.idx) \o StatusPath
  /\ r.pc \in {"fetch", "body"} \/ r.resp # Null
       => r.url = JoinUrl(r.base, path) /\ r.fetches = r.probes + 1
  /\ r.pc = "done"
       => IF r.resp # Null THEN r.result = RequestResult(r.resp, r.body)
          ELSE \/ r.result = Thrown("BaseUrlNotDetected", 0) /\ r.fetches = r.probes
               \/ r.result \in {Thrown("TimeoutError", 0), Thrown("NetworkError", 0)}
                    /\ r.fetches = r.probes + 1

\* C24: a callOperation of an operationId of the catalog is, at every
\* moment, what request is for the method and path the catalog gives that
\* id: the same fetches, the same result, the same errors.
C24_CallOperationIsRequest ==
  \A c \in Calls :
    /\ call[c].op = "request" => ActsAsRequest(call[c], call[c].method, call[c].arg)
    /\ (call[c].op = "callOperation" /\ call[c].opId \in DOMAIN Manifest)
         => ActsAsRequest(call[c], Manifest[call[c].opId].method, Manifest[call[c].opId].path)

\* callOperation("appGetStatus") has fetched GET /app/status under the base
\* URL its detection found and returned the decoded body.
C24_Witness ==
  \E c \in Calls :
    /\ call[c].op = "callOperation" /\ call[c].opId = "appGetStatus"
    /\ call[c].method = "GET"
    /\ call[c].probes > 0
    /\ call[c].url = JoinUrl(call[c].base, StatusPath)
    /\ call[c].result = Returned(<<"json", <<"{", "}">>>>)

\* The calls that go to a target URL.
TargetOps == {"request", "callOperation", "downloadImage"}

\* The call is over without a response (the detection found nothing, the
\* fetch timed out or failed, the operation is unknown), or with a response
\* of non-success status.
Failed(r) == r.pc = "done" /\ (r.resp = Null \/ ~Ok(r.resp[1]))

\* A non-success response downloadImage takes for an image all the same.
ImageAllTheSame(r) ==
  r.op = "downloadImage" /\ r.resp # Null /\ LooksLikeImage(r.body, r.resp[2])

\* C25 as stated: a request, callOperation or downloadImage call sends at
\* most one fetch to its target URL, and every failure (non-success status,
\* timeout, network error, unknown operation, no base URL) is the call's
\* rejection.
C25_EveryFailureRejects ==
  \A c \in Calls :
    call[c].op \in TargetOps =>
      /\ call[c].fetches - call[c].probes <= 1
      /\ Failed(call[c]) => call[c].result.tag = "error"

\* C25, amended: the same, except that downloadImage returns the body of a
\* non-success response that looks like an image.
C25_EveryFailureRejectsButImages ==
  \A c \in Calls :
    call[c].op \in TargetOps =>
      /\ call[c].fetches - call[c].probes <= 1
      /\ Failed(call[c]) =>
           IF ImageAllTheSame(call[c]) THEN call[c].result = Returned(call[c].body)
           ELSE call[c].result.tag = "error"

\* A request has timed out on its one target fetch, after a detection of
\* two probes, and is rejected.
C25_Witness ==
  \E c \in Calls :
    /\ call[c].op = "request"
    /\ call[c].probes = 2 /\ call[c].fetches = 3
    /\ call[c].result = Thrown("TimeoutError", 0)

\* C27: the probes of a call are issued one by one and in configured order:
\* a step issues at most one probe, the k-th probe of a call goes to the
\* k-th prefix, it is issued when the call begins or in the very step in
\* which the probe before it ends without success, and a probe that ends
\* with success, like a detection that is over, is followed by no probe.
C27_ProbesOneByOneInOrder ==
  [][\A c \in Calls :
       LET r == call[c]
           n == call'[c]
       IN /\ n.probes \in {r.probes, r.probes + 1}
          /\ n.probes = r.probes + 1
               => /\ n.pc = "probe" /\ n.timer
                  /\ n.idx = n.probes
                  /\ n.url = Candidate(n.idx) \o StatusPath
                  /\ r.pc \in {"idle", "probe"}
                  /\ r.pc = "probe" => (r.idx = r.probes /\ net[r.idx] # "ok")
          /\ (r.pc = "probe" /\ net[r.idx] = "ok" /\ n # r)
               => (n.probes = r.probes /\ n.pc # "probe")
          /\ r.pc \notin {"idle", "probe"} => n.probes = r.probes]_vars

\* A detectBaseUrl has probed the first prefix without success, then the
\* second, and has returned the second candidate.
C27_Witness ==
  \E c \in Calls :
    /\ call[c].op = "detectBaseUrl"
    /\ Len(prefixes) = 2 /\ net[1] # "ok" /\ net[2] = "ok"
    /\ call[c].probes = 2
    /\ call[c].result = Returned(Candidate(2))

\* The call is over with an error.
Rejected(r) == r.pc = "done" /\ r.result.tag = "error"

\* C28 as stated: a call that has failed has left this.baseUrl as it was
\* when the call began.
C28_FailedCallLeavesBaseUrl ==
  \A c \in Calls : Rejected(call[c]) => baseUrl = call[c].seen

\* C28, amended: a call that has failed has left this.baseUrl as it was when
\* the call began, unless it is a request, callOperation or downloadImage
\* that began with no base URL resolved and whose own detection succeeded:
\* then the base URL it detected is stored.
C28_FailedCallLeavesResolvedBaseUrl ==
  \A c \in Calls :
    Rejected(call[c]) =>
      \/ baseUrl = call[c].seen
      \/ /\ call[c].op \in TargetOps
         /\ call[c].seen = Null
         /\ call[c].probes > 0 /\ call[c].base # Null
         /\ baseUrl = call[c].base

\* A request on a client whose base URL was resolved has failed with an
\* HTTP error, and the base URL is the one it was.
C28_Witness ==
  \E c \in Calls :
    /\ call[c].op = "request"
    /\ call[c].seen = PresetBaseUrl
    /\ call[c].result = Thrown("HttpError", 500)
    /\ baseUrl = PresetBaseUrl

\* ------------------------------------------ the route catalog: its loading
\* A caller calls the exported loadRoutes().
CallLoadRoutes ==
  /\ routesCache' = LoadRoutes
  /\ loads' = ManifestReads
  /\ UNCHANGED <<prefixes, apiBasePath, baseUrl, net, stable, call, authVars, socketVars,
                 toolVars>>

\* loadRoutes and callOperation calls, of known and unknown ids, in any
\* order and overlapping.
NextRoutes ==
  \/ CallLoadRoutes
  \/ \E c \in Calls, id \in OperationIds : StartCallOperation(c, id)
  \/ \E c \in Calls : ProbeSettle(c)
  \/ \E c \in Calls : TimerFire(c)
  \/ \E c \in Calls : FetchFail(c)

SpecRoutes == Init /\ [][NextRoutes]_vars

\* C29: the manifest is read at most once; the catalog is unset before that
\* and the manifest's entries for ever after; every callOperation of an id
\* of the catalog got the method and path the manifest gives that id.
C29_CatalogLoadedOnce ==
  /\ loads <= 1
  /\ routesCache = (IF loads = 0 THEN Null ELSE <<Manifest>>)
  /\ \A c \in Calls :
       (call[c].op = "callOperation" /\ call[c].opId \in DOMAIN Manifest)
         => /\ call[c].method = Manifest[call[c].opId].method
            /\ call[c].arg = Manifest[call[c].opId].path

\* Two callOperation calls, of an unknown and of a known id, after one read
\* of the manifest.
C29_Witness ==
  \E c, d \in Calls :
    /\ call[c].op = "callOperation" /\ call[c].opId = "nope"
    /\ call[d].op = "callOperation" /\ call[d].opId = "appGetStatus"
    /\ c < d
    /\ loads = 1
    /\ routesCache = <<Manifest>>

\* C30: the timer of a call is armed only while a fetch of the call is in
\* flight: once the fetch has settled (the body is being read, or the call
\* is over) it is cleared, and from then on the call's signal is not
\* aborted; a signal is aborted only by its armed timer.
C30_TimerClearedWhenFetchSettles ==
  [][\A c \in Calls :
       /\ call'[c].timer => call'[c].pc \in {"probe", "fetch"}
       /\ call[c].pc \in {"body", "done"} => call'[c].aborted = call[c].aborted
       /\ (~call[c].aborted /\ call'[c].aborted)
            => (call[c].timer /\ call[c].pc \in {"probe", "fetch"})]_vars

\* The response of a request has arrived and its body is being read: the
\* timer is cleared, the signal not aborted.
C30_Witness ==
  \E c \in Calls :
    /\ call[c].op = "request"
    /\ call[c].pc = "body"
    /\ call[c].resp # Null
    /\ ~call[c].timer /\ ~call[c].aborted

\* ------------------------------------------- tools/extract_auth_key.js
\* How many times the tool is run.
MaxRuns == 2

\* __dirname of the tool, and repoRoot(): path.resolve(__dirname, "..").
ToolsDir == <<"/", "r", "/", "t", "o", "o", "l", "s">>
RepoRoot == Resolve(<<ToolsDir, <<".", ".">>>>)

\* safeRoots of normalizeSafePath.
ToolRoots == <<Cwd, RepoRoot, HomeDir, TmpDir>>

\* isWithinRoot(root, candidate) of the tool, process.platform not being
\* "win32".
IsWithinToolRoot(root, candidate) ==
  candidate = root \/ StartsWith(candidate, root \o <<"/">>)

\* normalizeSafePath(candidate, { mustExist }): the resolved path, or the
\* error thrown.
NormalizeSafePath(candidate, mustExist) ==
  LET resolved == Resolve(<<candidate>>)
  IN IF candidate = <<>>
       THEN [ok |-> FALSE, path |-> <<>>, error |-> "PathRequired"]
     ELSE IF ~\E k \in 1..Len(ToolRoots) : IsWithinToolRoot(ToolRoots[k], resolved)
       THEN [ok |-> FALSE, path |-> resolved, error |-> "PathOutsideAllowedRoots"]
     ELSE IF mustExist /\ resolved \notin DOMAIN disk
       THEN [ok |-> FALSE, path |-> resolved, error |-> "PathNotFound"]
     ELSE [ok |-> TRUE, path |-> resolved, error |-> ""]

\* BASE64_RE: /^[A-Za-z0-9+/]+={0,2}$/
Base64Re(raw) ==
  \E pad \in 0..2 :
    /\ Len(raw) > pad
    /\ \A i \in 1..Len(raw) :
         IF i > Len(raw) - pad THEN raw[i] = "="
         ELSE \E k \in 1..Len(B64Alphabet) : B64Alphabet[k] = raw[i]

\* A smali source is kept as the string literals of the const-string
\* instructions of its getAuthHeader method, in order: what METHOD_RE and
\* STRING_RE find in its text.
\* extractCandidates(text): the literals, trimmed, of 20 characters or more
\* that are base64 and decode to 64 bytes.
ExtractCandidates(literals) ==
  { Trim(literals[i]) : i \in { j \in 1..Len(literals) :
      /\ Len(Trim(literals[j])) >= 20
      /\ Base64Re(Trim(literals[j]))
      /\ Len(Base64Decode(Trim(literals[j]))) = 64 } }

InstrumentRepositorySmali == <<"/", "I", "n", "s", "t", "r", "u", "m", "e", "n", "t", "R", "e",
     "p", "o", "s", "i", "t", "o", "r", "y", ".", "s", "m", "a", "l", "i">>

\* The smali files main reads for --smali: the file itself, or, under a
\* directory, the files named InstrumentRepository.smali (findFilesByName).
SmaliFiles(smaliPath) ==
  IF disk[smaliPath].kind = "dir"
    THEN { p \in DOMAIN disk : /\ disk[p].kind = "file"
                               /\ StartsWith(p, smaliPath \o <<"/">>)
                               /\ EndsWith(p, InstrumentRepositorySmali) }
    ELSE {smaliPath}

\* The directories above a path: what mkdirSync(path.dirname(p), { recursive:
\* true }) makes sure of.
Ancestors(p) == { SubSeq(p, 1, i - 1) : i \in { j \in 2..Len(p) : p[j] = "/" } }

\* fs.mkdirSync(path.dirname(outputPath), { recursive: true }) and
\* fs.writeFileSync(outputPath, key + "\n", "utf8").
WriteKey(outputPath, key) ==
  [ p \in DOMAIN disk \cup Ancestors(outputPath) \cup {outputPath} |->
      IF p = outputPath THEN File(key \o <<"\n">>)
      ELSE IF p \in DOMAIN disk THEN disk[p]
      ELSE Directory ]

\* What a run of main comes to: exit status 0 or 1, alreadyPresent, the
\* error, the files it read, the file system it leaves.
ToolOutcome(ok, alreadyPresent, error, read, after) ==
  [ok |-> ok, alreadyPresent |-> alreadyPresent, error |-> error, read |-> read,
   disk |-> after]

\* main from the keys found on: selectKey, then the write.
SelectAndWrite(outputPath, keys, read) ==
  IF keys = {} THEN ToolOutcome(FALSE, FALSE, "NoKeyFound", read, disk)
  ELSE IF Cardinality(keys) > 1 THEN ToolOutcome(FALSE, FALSE, "MultipleKeys", read, disk)
  ELSE ToolOutcome(TRUE, FALSE, "", read, WriteKey(outputPath, CHOOSE k \in keys : TRUE))

\* main from line 353 on, for a run with --smali and neither --input nor
\* --search-root.
Extract(args, outputPath, read) ==
  LET smali == NormalizeSafePath(args.smali, TRUE)
  IN IF ~smali.ok THEN ToolOutcome(FALSE, FALSE, smali.error, read, disk)
     ELSE IF SmaliFiles(smali.path) = {}
       THEN ToolOutcome(FALSE, FALSE, "NoSmaliFiles", read, disk)
     ELSE SelectAndWrite(outputPath,
            UNION { ExtractCandidates(disk[f].text) : f \in SmaliFiles(smali.path) },
            read \cup SmaliFiles(smali.path))

\* main without lines 343-352.
MainAlwaysExtracts(args) ==
  LET out == NormalizeSafePath(args.out, FALSE)
  IN IF ~out.ok THEN ToolOutcome(FALSE, FALSE, out.error, {}, disk)
     ELSE Extract(args, out.path, {})

\* main(args), and what run() makes of its result or of what it throws.
Main(args) ==
  LET out == NormalizeSafePath(args.out, FALSE)
  IN IF ~out.ok THEN ToolOutcome(FALSE, FALSE, out.error, {}, disk)
     ELSE IF out.path \notin DOMAIN disk THEN Extract(args, out.path, {})
     ELSE IF disk[out.path].kind = "dir"
       THEN ToolOutcome(FALSE, FALSE, "EISDIR", {out.path}, disk)
     ELSE IF Trim(disk[out.path].text) # <<>>
       THEN ToolOutcome(TRUE, TRUE, "", {out.path}, disk)
     ELSE Extract(args, out.path, {out.path})

\* node tools/extract_auth_key.js --smali <path> --out <path> --json
RunExtractAuthKey(args) ==
  /\ tool.runs < MaxRuns
  /\ tool' = [ op |-> "main", args |-> args, ok |-> Main(args).ok,
               alreadyPresent |-> Main(args).alreadyPresent, error |-> Main(args).error,
               read |-> Main(args).read, runs |-> tool.runs + 1 ]
  /\ disk' = Main(args).disk
  /\ reads' = reads \cup Main(args).read
  /\ UNCHANGED <<envKeyFile, auth, clientVars, socketVars, sent>>

\* ---------------------------------------------------------- tool: inputs
\* The keys of the tests: 64 bytes of "A", 64 bytes of "B", in base64.
KeyA == Base64Encode(Alloc(64, 65))
KeyB == Base64Encode(Alloc(64, 66))

\* --out: a file of the temporary directory, a new file in a directory
\* that is not there yet, a file outside the allowed roots.
OutTmp == <<"/", "t", "/", "a", "u", "t", "h", ".", "k", "e", "y">>
OutNew == <<"/", "t", "/", "n", "/", "a", "u", "t", "h", ".", "k", "e", "y">>
OutElsewhere == <<"/", "e", "/", "a", "u", "t", "h", ".", "k", "e", "y">>

\* --smali: a smali file, a directory with one in it, a missing file.
SmaliTmp == <<"/", "t", "/", "I", ".", "s", "m", "a", "l", "i">>
SmaliDir == <<"/", "t", "/", "d">>
SmaliInDir == SmaliDir \o InstrumentRepositorySmali
SmaliMissing == <<"/", "t", "/", "m", "i", "s", "s", "i", "n", "g", ".", "s", "m", "a", "l", "i">>

\* What the output file holds before the first run: nothing (no file), a
\* key, no text, a line feed alone.
OutContents == { <<>>, <<File(KeyB \o <<"\n">>)>>, <<File(<<>>)>>, <<File(<<"\n">>)>> }

\* What the smali file holds: one key, one key twice, two keys, a key of 32
\* bytes and a short literal, nothing.
SmaliContents ==
  { <<KeyA>>, <<KeyA, KeyA>>, <<KeyA, KeyB>>, <<Base64Encode(Alloc(32, 65)), <<"v", "1">>>>, <<>> }

ToolDiskOf(outNode, literals) ==
  [ p \in {SmaliTmp, SmaliDir, SmaliInDir, OutElsewhere}
          \cup (IF outNode = <<>> THEN {} ELSE {OutTmp}) |->
      IF p = SmaliTmp THEN File(literals)
      ELSE IF p = SmaliDir THEN Directory
      ELSE IF p = SmaliInDir THEN File(<<KeyA>>)
      ELSE IF p = OutElsewhere THEN File(KeyB \o <<"\n">>)
      ELSE outNode[1] ]

ToolArgs == [ out : {OutTmp, OutNew, OutElsewhere}, smali : {SmaliTmp, SmaliDir, SmaliMissing} ]

InitTool ==
  /\ InitClientUnused
  /\ InitSocketUnused
  /\ envKeyFile = Null
  /\ disk \in { ToolDiskOf(o, l) : o \in OutContents, l \in SmaliContents }
  /\ reads = {}
  /\ auth = NoAuthCall
  /\ sent = NoSend
  /\ tool = NoRun

NextTool == \E args \in ToolArgs : RunExtractAuthKey(args)

SpecTool == InitTool /\ [][NextTool]_vars

\* --------------------------------------------- tool: the claims about it
\* The step is a run of the tool.
IsRun == tool'.runs = tool.runs + 1

\* The --out path of the run, resolved, and the file it names before the run.
OutOfRun == Resolve(<<tool'.args.out>>)
OutIsFile == OutOfRun \in DOMAIN disk /\ disk[OutOfRun].kind = "file"

\* The run reports alreadyPresent with exit status 0, changes no file and
\* reads no file but the output file.
ReportsPresent ==
  /\ tool'.ok /\ tool'.alreadyPresent
  /\ disk' = disk
  /\ tool'.read \subseteq {OutOfRun}

\* C26 as stated: a run whose --out file exists with non-empty content
\* reports alreadyPresent, leaves the file as it is and reads no input; a
\* run after a successful run with the same --out does the same.
C26_PresentWheneverNonEmpty ==
  [][IsRun =>
       /\ (OutIsFile /\ disk[OutOfRun].text # <<>>) => ReportsPresent
       /\ (tool.ok /\ tool'.args.out = tool.args.out) => ReportsPresent]_vars

\* C26, amended: the same for an --out path under the allowed roots whose
\* file holds more than white space.
C26_PresentWheneverNonBlank ==
  [][IsRun =>
       /\ (/\ OutIsFile
           /\ \E k \in 1..Len(ToolRoots) : IsWithinToolRoot(ToolRoots[k], OutOfRun)
           /\ Trim(disk[OutOfRun].text) # <<>>) => ReportsPresent
       /\ (tool.ok /\ tool'.args.out = tool.args.out) => ReportsPresent]_vars

\* A first run has written the key into a new file, a second run with the
\* same --out has reported alreadyPresent and read the output file alone.
C26_Witness ==
  /\ tool.runs = 2
  /\ tool.args.out = OutNew
  /\ tool.ok /\ tool.alreadyPresent
  /\ tool.read = {OutNew}
  /\ disk[OutNew] = File(KeyA \o <<"\n">>)

====
